---- MODULE Spec2Model ----
(***************************************************************************)
(* Vendor rates service: the per-vendor reconciliation ("comparison")      *)
(* functions of core/obr_service.py and core/comparison_strategies.py, the *)
(* CSV writers, the master-data cache of core/cache.py and the background  *)
(* runs of worker_obr.py.                                                  *)
(*                                                                         *)
(* Text: a Python str is a sequence of one-character strings, so that      *)
(* startswith, "in", split, strip, upper and lower and the ordering used   *)
(* by sorted() are computed as Python computes them.  A rate is a natural  *)
(* number (the float compared with > and ==); a date is text.              *)
(***************************************************************************)
EXTENDS Integers, Sequences, FiniteSets, TLC

VARIABLES
    fn,          \* the comparison function a run of the engine applies
    inp,         \* its arguments: the vendor sheets' rows and the master rows
    csv_data,    \* the list the comparison returned (list_to_send_in_csv)
    written,     \* the data rows written to the output CSV, in file order
    pc,          \* position of the run: "start", "compared", "raised", "written"
    cache,         \* CacheManager._cache: key -> the cached list object
    cache_expiry,  \* CacheManager._cache_expiry: key -> expiry time
    now,           \* datetime.now(), in ticks
    callers,       \* each caller of _get_obr_master_data_cached: position, locals
    fetch_log,     \* the calls of repository.get_obr_master_data made so far
    lookups,       \* the lookups completed so far, in order of completion
    runs,          \* each upload: position of its background thread, locals
    temp_dir,      \* FileManager.temp_dir: file name -> the file's content
    access_log,    \* the accesses made so far to files of temp_dir
    unique_codes,  \* the set unique_codes as the last call of compare left it
    returned,      \* the lists the calls of one strategy instance returned
    call,          \* a call of a function on its own: its name and argument
    result         \* what the call returned, <<>> while it has not

engineVars == <<fn, inp, csv_data, written, pc>>
cacheVars == <<cache, cache_expiry, now, callers, fetch_log, lookups>>
runVars == <<runs, temp_dir, access_log>>
strategyVars == <<unique_codes, returned>>
callVars == <<call, result>>
vars == <<fn, inp, csv_data, written, pc,
          cache, cache_expiry, now, callers, fetch_log, lookups,
          runs, temp_dir, access_log, unique_codes, returned, call, result>>

(***************************************************************************)
(* Python str operations                                                   *)
(***************************************************************************)
LowerChars == <<"a","b","c","d","e","f","g","h","i","j","k","l","m",
                "n","o","p","q","r","s","t","u","v","w","x","y","z">>
UpperChars == <<"A","B","C","D","E","F","G","H","I","J","K","L","M",
                "N","O","P","Q","R","S","T","U","V","W","X","Y","Z">>
Digits == {"0","1","2","3","4","5","6","7","8","9"}

\* The characters of the model in code-point order (the order of str.__lt__).
CharOrder == <<" ", ",", "-", "0","1","2","3","4","5","6","7","8","9", ";">>
                 \o UpperChars \o <<"_">> \o LowerChars

Ord(c) == CHOOSE i \in 1..Len(CharOrder) : CharOrder[i] = c

UpperChar(c) == IF \E i \in 1..Len(LowerChars) : LowerChars[i] = c
                THEN UpperChars[CHOOSE i \in 1..Len(LowerChars) : LowerChars[i] = c]
                ELSE c
LowerChar(c) == IF \E i \in 1..Len(UpperChars) : UpperChars[i] = c
                THEN LowerChars[CHOOSE i \in 1..Len(UpperChars) : UpperChars[i] = c]
                ELSE c

Upper(s) == [i \in 1..Len(s) |-> UpperChar(s[i])]
Lower(s) == [i \in 1..Len(s) |-> LowerChar(s[i])]

StartsWith(s, p) == Len(p) <= Len(s) /\ SubSeq(s, 1, Len(p)) = p

\* sub in s
Contains(s, sub) == \E i \in 0..(Len(s) - Len(sub)) : SubSeq(s, i + 1, i + Len(sub)) = sub

RECURSIVE LStrip(_)
LStrip(s) == IF s # <<>> /\ Head(s) = " " THEN LStrip(Tail(s)) ELSE s
RECURSIVE RStrip(_)
RStrip(s) == IF s # <<>> /\ s[Len(s)] = " " THEN RStrip(SubSeq(s, 1, Len(s) - 1)) ELSE s
Strip(s) == RStrip(LStrip(s))

\* s.split(sep) for a set of one-character separators: the pieces between
\* separators, empty pieces kept (str.split(',') and re.split(r'[;\-]', s)).
RECURSIVE SplitAcc(_,_,_,_)
SplitAcc(s, seps, cur, acc) ==
    IF s = <<>> THEN Append(acc, cur)
    ELSE IF Head(s) \in seps THEN SplitAcc(Tail(s), seps, <<>>, Append(acc, cur))
    ELSE SplitAcc(Tail(s), seps, Append(cur, Head(s)), acc)
Split(s, seps) == SplitAcc(s, seps, <<>>, <<>>)

\* re.sub(r'[^0-9]', '', s)
DigitsOnly(s) == SelectSeq(s, LAMBDA c : c \in Digits)

\* a < b for Python str
RECURSIVE StrLess(_,_)
StrLess(a, b) ==
    IF b = <<>> THEN FALSE
    ELSE IF a = <<>> THEN TRUE
    ELSE IF Head(a) = Head(b) THEN StrLess(Tail(a), Tail(b))
    ELSE Ord(Head(a)) < Ord(Head(b))

(***************************************************************************)
(* Python list idioms                                                      *)
(***************************************************************************)
RECURSIVE FoldLeft(_,_,_)
FoldLeft(op(_,_), acc, s) ==
    IF s = <<>> THEN acc ELSE FoldLeft(op, op(acc, Head(s)), Tail(s))

\* [f(x) for x in s]
Map(f(_), s) == [i \in 1..Len(s) |-> f(s[i])]

\* the concatenation of f(x) for x in s (a loop that extends one list)
FlatMap(f(_), s) == FoldLeft(LAMBDA acc, x : acc \o f(x), <<>>, s)

\* next((x for x in s if P(x)), None), as a list of zero or one element
First(P(_), s) == LET m == SelectSeq(s, P) IN IF m = <<>> THEN <<>> ELSE <<Head(m)>>

\* A variant in which a later element of equal key replaces the best so far.
MaxByLast(k(_), s) ==
    FoldLeft(LAMBDA best, x : IF k(x) >= k(best) THEN x ELSE best, Head(s), Tail(s))

\* max(s, key=k) on a non-empty list: the first element whose key is maximal
MaxByFirst(k(_), s) ==
    FoldLeft(LAMBDA best, x : IF k(x) > k(best) THEN x ELSE best, Head(s), Tail(s))

\* A variant of the pick below: on equal rates the later row is kept.
MaxRateItemLast(s) == MaxByLast(LAMBDA x : x.rate, s)

\* max(s, key=lambda x: x["rate"])
MaxRateItem(s) == MaxByFirst(LAMBDA x : x.rate, s)

\* the distinct values of key over s, in order of first occurrence (the key
\* order of a dict filled by a loop over s)
KeysInOrder(key(_), s) ==
    FoldLeft(LAMBDA acc, x : IF \E i \in 1..Len(acc) : acc[i] = key(x)
                             THEN acc ELSE Append(acc, key(x)), <<>>, s)

Range(s) == {s[i] : i \in 1..Len(s)}

(***************************************************************************)
(* Output records                                                          *)
(***************************************************************************)
\* The dict appended to list_to_send_in_csv by the methods of OBRService.
CsvRecord(dest, code, area, carea, price, date, label) ==
    [destinations |-> dest, country_code |-> code, area_code |-> area,
     country_area |-> carea, price_min |-> price, start_date |-> date,
     origin_name |-> label]

\* ... by the vendors whose dial code fills country_code and country_area.
DialRecord(dest, code, price, date, label) ==
    CsvRecord(dest, code, <<>>, code, price, date, label)

\* The three-key dict appended by the strategies of comparison_strategies.py.
StrategyRecord(dest, code, price) ==
    [destinations |-> dest, country_code |-> code, price_min |-> price]

\* x.get(key, default)
Get(x, key, default) == IF key \in DOMAIN x THEN x[key] ELSE default

\* item["vendor"].upper() == vendor_name_upper
MasterOf(obr_master_data, vendor_name_upper) ==
    SelectSeq(obr_master_data, LAMBDA item : Upper(item.vendor) = vendor_name_upper)

(***************************************************************************)
(* OBRService._parse_and_split_dial_codes                                  *)
(***************************************************************************)
\* A variant of the function below in which '-' is no separator.
ParseAndSplitSemicolon(dial_codes_str) ==
    LET parts == Split(dial_codes_str, {";"})
    IN  Map(Strip, SelectSeq(parts, LAMBDA p : Strip(p) # <<>>))

ParseAndSplitDialCodes(dial_codes_str) ==
    LET parts == Split(dial_codes_str, {";", "-"})
    IN  Map(Strip, SelectSeq(parts, LAMBDA p : Strip(p) # <<>>))

(***************************************************************************)
(* Belgacom                                                                *)
(***************************************************************************)
TrafficFromEu == <<"t","r","a","f","f","i","c"," ","f","r","o","m"," ","e","u">>
ItalyMobileTim == <<"i","t","a","l","y"," ","m","o","b","i","l","e"," ","t","i","m">>
BelgacomPlatinumUpper ==
    <<"B","E","L","G","A","C","O","M"," ","P","L","A","T","I","N","U","M">>
Code39 == <<"3","9">>
Code376 == <<"3","7","6">>
Code88237 == <<"8","8","2","3","7">>

BelgacomRouted(price_item, src, routing) ==
    CsvRecord(price_item.destinations, price_item.country_code, price_item.area_code,
              price_item.country_area, src.price_min, src.start_date, routing)

\* A variant that drops the test on the origin's first digit.
ItalyMobileItemsAnyOrigin(anumber_pricing) ==
    SelectSeq(anumber_pricing, LAMBDA item :
        Lower(item.reference_destinations) = ItalyMobileTim)

\* The A-number rows of the Italy Mobile TIM special case.
ItalyMobileItems(anumber_pricing) ==
    SelectSeq(anumber_pricing, LAMBDA item :
        /\ (StartsWith(item.origin, <<"4">>) \/ StartsWith(item.origin, <<"3">>))
        /\ Lower(item.reference_destinations) = ItalyMobileTim)

\* max(italy_mobile_items, key=price_min), as a list of zero or one element
ItalyMobileMax(anumber_pricing) ==
    LET items == ItalyMobileItems(anumber_pricing)
    IN  IF items = <<>> THEN <<>> ELSE <<MaxByFirst(LAMBDA x : x.price_min, items)>>

BelgacomSpecialCase(routing, destiny_code, origin_code, destinations) ==
    /\ Lower(routing) = TrafficFromEu
    /\ destiny_code = Code39
    /\ origin_code = Code376
    /\ Lower(destinations) = ItalyMobileTim

\* The records one master row adds for one price-list row (obr_service.py).
BelgacomServiceRow(vendor, price_item, anumber_pricing) ==
    LET destiny_code == vendor.destiny_code
        origin_code == vendor.origin_code
        routing == vendor.routing
        destinations == price_item.destinations
        items_with_same_origin == SelectSeq(anumber_pricing, LAMBDA item :
            /\ Contains(Upper(item.reference_destinations), Upper(vendor.destiny))
            /\ item.origin = origin_code)
        \* anumber_index[(origin, reference_destinations)]: the last row wins
        indexed == SelectSeq(anumber_pricing, LAMBDA item :
            item.origin = origin_code /\ item.reference_destinations = destinations)
        from_index == IF indexed = <<>> THEN <<>> ELSE <<indexed[Len(indexed)]>>
        matching_item ==
            IF from_index # <<>> THEN from_index
            ELSE First(LAMBDA item : item.reference_destinations = destinations,
                       items_with_same_origin)
        italy_mobile_max == ItalyMobileMax(anumber_pricing)
    IN  IF BelgacomSpecialCase(routing, destiny_code, origin_code, destinations)
        THEN IF italy_mobile_max # <<>>
             THEN <<BelgacomRouted(price_item, italy_mobile_max[1], routing)>>
             ELSE <<>>
        ELSE IF matching_item # <<>>
             THEN <<BelgacomRouted(price_item, matching_item[1], routing)>>
             ELSE <<BelgacomRouted(price_item, price_item, routing)>>

\* OBRService._compare_belgacom_data
CompareBelgacomData(price_list, anumber_pricing, obr_master_data) ==
    LET belgacom_master_data == MasterOf(obr_master_data, BelgacomPlatinumUpper)
        routed == FlatMap(LAMBDA vendor :
            FlatMap(LAMBDA price_item : BelgacomServiceRow(vendor, price_item, anumber_pricing),
                    SelectSeq(price_list, LAMBDA item : item.country_code = vendor.destiny_code)),
            belgacom_master_data)
        fallback == Map(LAMBDA price_item : BelgacomRouted(price_item, price_item, <<>>),
                        price_list)
    IN  routed \o fallback

\* The records one master row adds for one price-list row (the strategy).
BelgacomStrategyRow(vendor, price_item, anumber_pricing) ==
    LET destiny_code == vendor.destiny_code
        origin_code == vendor.origin_code
        routing == vendor.routing
        items_with_same_origin == SelectSeq(anumber_pricing, LAMBDA item :
            /\ Contains(Upper(item.reference_destinations), Upper(vendor.destiny))
            /\ item.origin = origin_code)
        matching_items == ItalyMobileItems(anumber_pricing)
        matching_item == First(LAMBDA item :
            /\ item.reference_destinations = price_item.destinations
            /\ item.origin = origin_code, items_with_same_origin)
    IN  IF BelgacomSpecialCase(routing, destiny_code, origin_code, price_item.destinations)
        THEN IF matching_items # <<>>
             THEN <<BelgacomRouted(price_item,
                        MaxByFirst(LAMBDA x : x.price_min, matching_items), routing)>>
             ELSE <<>>
        ELSE IF matching_item # <<>>
             THEN <<BelgacomRouted(price_item, matching_item[1], routing)>>
             ELSE <<BelgacomRouted(price_item, price_item, routing)>>

\* BelgacomComparisonStrategy.compare (obr_master already filtered to the vendor)
BelgacomStrategyCompare(price_list, anumber_pricing, obr_master) ==
    LET routed == FlatMap(LAMBDA vendor :
            FlatMap(LAMBDA price_item : BelgacomStrategyRow(vendor, price_item, anumber_pricing),
                    SelectSeq(price_list, LAMBDA item : item.country_code = vendor.destiny_code)),
            obr_master)
        fallback == Map(LAMBDA price_item : BelgacomRouted(price_item, price_item, <<>>),
                        SelectSeq(price_list, LAMBDA price_item :
                            Get(price_item, "country_area", <<>>) # Code88237))
    IN  routed \o fallback

(***************************************************************************)
(* The generic two-sheet strategy                                          *)
(***************************************************************************)
\* A variant of the definition below: the set the last call left is taken up
\* again.
KeptCodes == unique_codes

\* unique_codes = set() at the start of a call of compare
NewCodes == {}

\* TwoSheetGenericComparisonStrategy.compare: the codes emitted so far are
\* kept in unique_codes across all master rows.  The value is the list
\* returned together with the local unique_codes at the return.
TwoSheetGenericRun(price_list, origin_mapping, obr_master) ==
    LET Step(acc, pair) ==
            LET code == pair[2].dialed_digit
            IN  IF code \in acc.unique_codes THEN acc
                ELSE [out |-> Append(acc.out,
                                StrategyRecord(pair[1].destination, code, pair[1].rate)),
                      unique_codes |-> acc.unique_codes \cup {code}]
        PairsOf(vendor) ==
            LET prices_filtered ==
                    SelectSeq(price_list, LAMBDA item : item.origin = vendor.origin)
                origins_filtered ==
                    SelectSeq(origin_mapping, LAMBDA item :
                        StartsWith(item.dialed_digit, vendor.destiny_code))
            IN  FlatMap(LAMBDA price_item :
                    Map(LAMBDA origin : <<price_item, origin>>,
                        SelectSeq(origins_filtered, LAMBDA origin :
                            origin.origin_name = price_item.origin)),
                    prices_filtered)
    IN  FoldLeft(Step, [out |-> <<>>, unique_codes |-> NewCodes],
                 FlatMap(PairsOf, obr_master))

TwoSheetGenericCompare(price_list, origin_mapping, obr_master) ==
    TwoSheetGenericRun(price_list, origin_mapping, obr_master).out

(***************************************************************************)
(* Apelby (also used by Phonetic Limited)                                  *)
(***************************************************************************)
\* ApelbyComparisonStrategy.compare.  A row of price_list is copied for each
\* of its codes ({**item, "code": code}); the row itself is left as it is.
ApelbyRun(price_list, new_price_list, origins, obr_master) ==
    LET Step(acc, pair) ==
            LET item == pair[1]
                new_price == pair[2]
            IN  IF item.code \in acc.unique_codes THEN acc
                ELSE [out |-> Append(acc.out,
                                StrategyRecord(item.destination, item.code,
                                    IF new_price # <<>> THEN new_price[1].rate
                                    ELSE item.rate)),
                      unique_codes |-> acc.unique_codes \cup {item.code}]
        PairsOf(vendor) ==
            LET prices_filtered ==
                    FlatMap(LAMBDA item :
                        Map(LAMBDA code : [item EXCEPT !.code = code],
                            SelectSeq(Map(Strip, Split(item.code, {","})),
                                      LAMBDA code : StartsWith(code, vendor.destiny_code))),
                        price_list)
                origins_filtered ==
                    SelectSeq(origins, LAMBDA item :
                        /\ Contains(Upper(item.origin), Upper(vendor.destiny))
                        /\ item.origin_code = vendor.origin_code)
                available_new_prices ==
                    FlatMap(LAMBDA origin :
                        SelectSeq(new_price_list, LAMBDA np : np.origin = origin.origin),
                        origins_filtered)
            IN  Map(LAMBDA item :
                    <<item, First(LAMBDA np : /\ np.destination = item.destination
                                              /\ np.dial_code = item.code,
                                  available_new_prices)>>,
                    prices_filtered)
    IN  FoldLeft(Step, [out |-> <<>>, unique_codes |-> NewCodes],
                 FlatMap(PairsOf, obr_master))

(***************************************************************************)
(* Sunrise                                                                 *)
(***************************************************************************)
SunriseUpper == <<"S","U","N","R","I","S","E">>
Vodafone == <<"v","o","d","a","f","o","n","e">>
OriginSetNL == <<"N","L">>

\* for dial_code in dial_codes: if dial_code.strip() and dial_code.strip()
\* not in price_unique_codes: append the record, add the code.
EmitNewCodes(acc, dial_codes, record(_)) ==
    FoldLeft(LAMBDA a, dial_code :
                IF Strip(dial_code) # <<>> /\ Strip(dial_code) \notin a.seen
                THEN [out |-> Append(a.out, record(Strip(dial_code))),
                      seen |-> a.seen \cup {Strip(dial_code)}]
                ELSE a,
             acc, dial_codes)

\* The body of "for origin in matching_origins" for one master row.
\* A variant of the definition below: the first match is used whenever there
\* is one.
UseFirstMatchAlways(first_match, is_vodafone, origin_set) ==
    first_match # <<>>

\* use_first_match
UseFirstMatch(first_match, is_vodafone, origin_set) ==
    first_match # <<>> /\ (~is_vodafone \/ origin_set = OriginSetNL)

SunriseOrigin(acc, origin, routing, price_list) ==
    LET origin_set == origin.origin_set
        origin_name == origin.origin_name
        matching_prices == SelectSeq(price_list, LAMBDA price :
            price.origin_set = origin_set /\ price.origin = origin_name)
        first_match == First(LAMBDA price : price.origin = origin_name, matching_prices)
        is_vodafone == Lower(routing) = Vodafone
        use_first_match == UseFirstMatch(first_match, is_vodafone, origin_set)
        PriceStep(a, price_item) ==
            LET same_dial_code_prices == SelectSeq(matching_prices, LAMBDA p :
                    p.dial_codes = price_item.dial_codes)
                src == IF use_first_match THEN first_match[1]
                       ELSE MaxRateItem(same_dial_code_prices)
            IN  IF ~use_first_match /\ same_dial_code_prices = <<>> THEN a
                ELSE EmitNewCodes(a, ParseAndSplitDialCodes(price_item.dial_codes),
                        LAMBDA code : DialRecord(price_item.destination, code,
                                                 src.rate, src.effective_date, routing))
    IN  FoldLeft(PriceStep, acc, matching_prices)

\* The records of one master row: price_unique_codes starts empty for each.
SunriseVendor(vendor, price_list, origin_mapping) ==
    LET matching_origins == SelectSeq(origin_mapping, LAMBDA origin :
            origin.dialed_digit = vendor.origin_code)
    IN  FoldLeft(LAMBDA acc, origin : SunriseOrigin(acc, origin, vendor.routing, price_list),
                 [out |-> <<>>, seen |-> {}], matching_origins).out

\* The final loop: per destination, the highest-rate row and its first code.
SunriseFinalLoop(price_list) ==
    LET destinations == KeysInOrder(LAMBDA price : price.destination, price_list)
        Step(acc, destination) ==
            LET prices == SelectSeq(price_list, LAMBDA price : price.destination = destination)
                max_price_item == MaxRateItem(prices)
                dial_codes == ParseAndSplitDialCodes(max_price_item.dial_codes)
                first_dial_code == IF dial_codes # <<>> THEN dial_codes[1] ELSE <<>>
            IN  EmitNewCodes(acc, <<first_dial_code>>,
                    LAMBDA code : DialRecord(max_price_item.destination, code,
                                    max_price_item.rate, max_price_item.effective_date, <<>>))
    IN  FoldLeft(Step, [out |-> <<>>, seen |-> {}], destinations).out

\* The GroupBy deduplication on (country_code, price_min, origin_name).
SunriseDedup(list) ==
    FoldLeft(LAMBDA acc, item :
                LET key == <<item.country_code, item.price_min, item.origin_name>>
                IN  IF key \in acc.seen THEN acc
                    ELSE [out |-> Append(acc.out, item), seen |-> acc.seen \cup {key}],
             [out |-> <<>>, seen |-> {}], list).out

\* list_to_send_in_csv after list_to_send_in_csv.extend(final_loop_records)
SunriseCombined(price_list, origin_mapping, obr_master_data) ==
    FlatMap(LAMBDA vendor : SunriseVendor(vendor, price_list, origin_mapping),
            MasterOf(obr_master_data, SunriseUpper))
        \o SunriseFinalLoop(price_list)

\* A variant of the function below that returns the combined list as it is
\* when it is not longer than the price list.
CompareSunriseCombined(price_list, origin_mapping, obr_master_data) ==
    IF Len(SunriseDedup(SunriseCombined(price_list, origin_mapping, obr_master_data)))
           > Len(price_list)
    THEN SunriseDedup(SunriseFinalLoop(price_list))
    ELSE SunriseCombined(price_list, origin_mapping, obr_master_data)

\* A variant of the function below without the comparison with the length of
\* the price list.
CompareSunriseUnbounded(price_list, origin_mapping, obr_master_data) ==
    SunriseDedup(SunriseCombined(price_list, origin_mapping, obr_master_data))

\* OBRService._compare_sunrise_data
CompareSunriseData(price_list, origin_mapping, obr_master_data) ==
    LET sunrise_master_data == MasterOf(obr_master_data, SunriseUpper)
        routed == FlatMap(LAMBDA vendor : SunriseVendor(vendor, price_list, origin_mapping),
                          sunrise_master_data)
        final_loop_records == SunriseFinalLoop(price_list)
        deduplicated_list == SunriseDedup(routed \o final_loop_records)
    IN  IF Len(deduplicated_list) > Len(price_list)
        THEN SunriseDedup(final_loop_records)
        ELSE deduplicated_list

(***************************************************************************)
(* HGC                                                                     *)
(***************************************************************************)
HgcPremiumUpper == <<"H","G","C"," ","P","R","E","M","I","U","M">>
Obr1 == <<"o","b","r"," ","1">>
Code44 == <<"4","4">>

\* The body of "for price in price_list_for_compare" for one master row.
HgcPrice(acc, price, vendor, price_list, price_list_for_compare, origin_mapping) ==
    LET origin_code == vendor.origin_code
        routing == vendor.routing
        dial_code == price.dial_code
        Add(a, src) == [a EXCEPT !.out = Append(@,
            DialRecord(src.destination, dial_code, src.rate, src.effective_date, routing))]
        same_44 == SelectSeq(price_list, LAMBDA p :
            /\ StartsWith(Strip(p.dial_code), Code44)
            /\ Lower(p.destination) = Lower(price.destination))
        same_dial_codes == SelectSeq(price_list_for_compare, LAMBDA p : p.dial_code = dial_code)
        origin_hgc_data_to_compare == SelectSeq(origin_mapping, LAMBDA origin :
            origin.dialed_digit = origin_code)
        with_origin == FoldLeft(LAMBDA a, same_dial :
                IF \E i \in 1..Len(origin_hgc_data_to_compare) :
                       same_dial.routing = origin_hgc_data_to_compare[i].origin_name
                THEN [Add(a, same_dial) EXCEPT !.seen = @ \cup {dial_code}]
                ELSE a,
            acc, same_dial_codes)
    IN  IF Lower(routing) = Obr1 /\ origin_code = Code44 /\ StartsWith(dial_code, Code44)
        THEN IF price.routing = <<>> /\ same_44 # <<>>
             THEN Add(acc, MaxRateItem(same_44))
             ELSE acc
        ELSE IF price.routing = <<>> THEN Add(acc, price)
        ELSE IF dial_code \in acc.seen THEN acc
        ELSE IF dial_code \in with_origin.seen THEN with_origin
        ELSE IF same_dial_codes # <<>>
             THEN [Add(with_origin, MaxRateItem(same_dial_codes))
                       EXCEPT !.seen = @ \cup {dial_code}]
             ELSE with_origin

\* The records of one master row: unique_dial_codes starts empty for each.
HgcVendor(vendor, price_list, origin_mapping) ==
    LET price_list_for_compare == SelectSeq(price_list, LAMBDA price :
            StartsWith(Strip(price.dial_code), vendor.destiny_code))
    IN  FoldLeft(LAMBDA acc, price :
                    HgcPrice(acc, price, vendor, price_list, price_list_for_compare,
                             origin_mapping),
                 [out |-> <<>>, seen |-> {}], price_list_for_compare).out

\* A variant of the final pass below that takes the first row of each group.
HgcFinalPassFirst(price_list) ==
    FlatMap(LAMBDA dial_code :
                LET prices_group == SelectSeq(price_list, LAMBDA price :
                        price.dial_code = dial_code)
                    max_price_item == Head(prices_group)
                IN  IF max_price_item.destination # <<>> /\ max_price_item.effective_date # <<>>
                    THEN <<DialRecord(max_price_item.destination, max_price_item.dial_code,
                               max_price_item.rate, max_price_item.effective_date, <<>>)>>
                    ELSE <<>>,
            KeysInOrder(LAMBDA price : price.dial_code, price_list))

\* The final pass: per dial code, the highest-rate row, unless its
\* destination or its date is empty.
HgcFinalPass(price_list) ==
    FlatMap(LAMBDA dial_code :
                LET prices_group == SelectSeq(price_list, LAMBDA price :
                        price.dial_code = dial_code)
                    max_price_item == MaxRateItem(prices_group)
                IN  IF max_price_item.destination # <<>> /\ max_price_item.effective_date # <<>>
                    THEN <<DialRecord(max_price_item.destination, max_price_item.dial_code,
                               max_price_item.rate, max_price_item.effective_date, <<>>)>>
                    ELSE <<>>,
            KeysInOrder(LAMBDA price : price.dial_code, price_list))

\* OBRService._compare_hgc_data
CompareHgcData(price_list, origin_mapping, obr_master_data) ==
    FlatMap(LAMBDA vendor : HgcVendor(vendor, price_list, origin_mapping),
            MasterOf(obr_master_data, HgcPremiumUpper))
    \o HgcFinalPass(price_list)

(***************************************************************************)
(* Orange France Platinum and Orange France Win                            *)
(***************************************************************************)
OrangeFrancePlatinumUpper == <<"O","R","A","N","G","E"," ","F","R","A","N","C","E"," ",
                               "P","L","A","T","I","N","U","M">>
OrangeFranceWinUpper == <<"O","R","A","N","G","E"," ","F","R","A","N","C","E"," ",
                          "W","I","N"," ","A","S">>

\* [code.strip() for code in price["dial_codes"].split(',')]
CommaCodes(dial_codes) == Map(Strip, Split(dial_codes, {","}))

\* price_list_expanded: one row per non-empty comma-separated code
PriceListExpanded(price_list) ==
    FlatMap(LAMBDA price :
                Map(LAMBDA dial_code : [destination |-> price.destination,
                                        dial_codes |-> dial_code,
                                        origin |-> price.origin,
                                        effective_date |-> price.effective_date,
                                        rate |-> price.rate],
                    SelectSeq(CommaCodes(price.dial_codes), LAMBDA c : c # <<>>)),
            price_list)

\* The largest rate of a non-empty list: max(item["rate"] for item in s)
MaxRate(s) == CHOOSE r \in {s[i].rate : i \in 1..Len(s)} :
                  \A i \in 1..Len(s) : s[i].rate <= r

\* The body of "for price in prices_for_destiny" for one master row.
PlatinumPrice(acc, price, routing, prices_for_destiny, matching_origins) ==
    LET dial_codes_list == CommaCodes(price.dial_codes)
        Emit(src_dest, src_rate, src_date) ==
            Map(LAMBDA dial_code : DialRecord(src_dest, dial_code, src_rate, src_date, routing),
                dial_codes_list)
        same_dial_codes == SelectSeq(prices_for_destiny, LAMBDA p :
            p.dial_codes = price.dial_codes)
        matched == First(LAMBDA item :
            \E i \in 1..Len(matching_origins) : matching_origins[i].origin_group = item.origin,
            same_dial_codes)
        biggest_rate == MaxRate(same_dial_codes)
        item_biggest_price == First(LAMBDA item : item.rate = biggest_rate, same_dial_codes)[1]
    IN  IF price.dial_codes \in acc.seen THEN acc
        ELSE IF price.origin = <<>>
        THEN [acc EXCEPT !.out = @ \o Emit(price.destination, price.rate, price.effective_date)]
        ELSE IF matched # <<>>
        THEN [out |-> acc.out \o Emit(matched[1].destination, matched[1].rate,
                                      matched[1].effective_date),
              seen |-> acc.seen \cup {price.dial_codes}]
        ELSE [out |-> acc.out \o Emit(item_biggest_price.destination, biggest_rate,
                                      item_biggest_price.effective_date),
              seen |-> acc.seen \cup {price.dial_codes}]

PlatinumVendor(vendor, price_list, origin_mapping) ==
    LET matching_origins == SelectSeq(origin_mapping, LAMBDA origin :
            origin.dialed_digit = vendor.origin_code)
        prices_for_destiny == SelectSeq(price_list, LAMBDA price :
            StartsWith(price.dial_codes, vendor.destiny_code))
    IN  FoldLeft(LAMBDA acc, price :
                    PlatinumPrice(acc, price, vendor.routing, prices_for_destiny,
                                  matching_origins),
                 [out |-> <<>>, seen |-> {}], prices_for_destiny).out

\* The final pass: per code not yet seen in this pass, the record of the row
\* that first names it, with the highest rate of the expanded rows of the code.
PlatinumFinalPass(price_list) ==
    LET price_list_expanded == PriceListExpanded(price_list)
        pairs == FlatMap(LAMBDA price :
                    Map(LAMBDA dial_code : <<price, dial_code>>, CommaCodes(price.dial_codes)),
                    price_list)
        Step(acc, pair) ==
            LET price == pair[1]
                dial_code == pair[2]
                matching_prices == SelectSeq(price_list_expanded, LAMBDA p :
                    p.dial_codes = dial_code)
            IN  IF dial_code = <<>> \/ dial_code \in acc.seen THEN acc
                ELSE [out |-> IF matching_prices # <<>>
                              THEN Append(acc.out, DialRecord(price.destination, dial_code,
                                       MaxRate(matching_prices), price.effective_date, <<>>))
                              ELSE acc.out,
                      seen |-> acc.seen \cup {dial_code}]
    IN  FoldLeft(Step, [out |-> <<>>, seen |-> {}], pairs).out

\* OBRService._compare_orange_france_platinum_data
CompareOrangeFrancePlatinumData(price_list, origin_mapping, obr_master_data) ==
    FlatMap(LAMBDA vendor : PlatinumVendor(vendor, price_list, origin_mapping),
            MasterOf(obr_master_data, OrangeFrancePlatinumUpper))
    \o PlatinumFinalPass(price_list)

\* for price_item in s: if dial_code and dial_code not in unique_dial_codes
EmitWinPrices(acc, s, label) ==
    FoldLeft(LAMBDA a, price_item :
                LET dial_code == price_item.dial_codes
                IN  IF dial_code # <<>> /\ dial_code \notin a.seen
                    THEN [out |-> Append(a.out, DialRecord(price_item.destination, dial_code,
                                      price_item.rate, price_item.effective_date, label)),
                          seen |-> a.seen \cup {dial_code}]
                    ELSE a,
             acc, s)

\* The body of "for origin in matching_origins" for one master row.
WinOrigin(acc, origin, vendor, price_list_expanded) ==
    LET matching_prices == SelectSeq(price_list_expanded, LAMBDA price :
            StartsWith(price.dial_codes, vendor.destiny_code))
        prices_with_origin == SelectSeq(matching_prices, LAMBDA price :
            price.origin # <<>> /\ price.origin = origin.origin_name)
        prices_without_origin == SelectSeq(matching_prices, LAMBDA price :
            price.origin = <<>>)
    IN  IF prices_with_origin # <<>>
        THEN EmitWinPrices(acc, prices_with_origin, vendor.routing)
        ELSE EmitWinPrices(acc, prices_without_origin, vendor.routing)

\* OBRService._compare_orange_france_win_data: unique_dial_codes is one set
\* for all master rows and for the final pass.
CompareOrangeFranceWinData(price_list, origin_mapping, obr_master_data) ==
    LET price_list_expanded == PriceListExpanded(price_list)
        pairs == FlatMap(LAMBDA vendor :
                    Map(LAMBDA origin : <<vendor, origin>>,
                        SelectSeq(origin_mapping, LAMBDA origin :
                            origin.dialed_digit = vendor.origin_code)),
                    MasterOf(obr_master_data, OrangeFranceWinUpper))
        routed == FoldLeft(LAMBDA acc, pair :
                              WinOrigin(acc, pair[2], pair[1], price_list_expanded),
                           [out |-> <<>>, seen |-> {}], pairs)
    IN  EmitWinPrices(routed, price_list_expanded, <<>>).out

(***************************************************************************)
(* Qxtel                                                                   *)
(***************************************************************************)
QxtelUpper == <<"Q","X","T","E","L">>

\* The records of one master row.
QxtelVendor(vendor, price_list, new_price_list, origin_codes) ==
    LET destiny_code == vendor.destiny_code
        origin_code == vendor.origin_code
        routing == vendor.routing
        price_list_destinations == SelectSeq(price_list, LAMBDA item :
            StartsWith(item.dial_codes, destiny_code))
        \* origin "44": every new price of the details of the origins that
        \* start with "44"
        wide == FlatMap(LAMBDA origin :
                    SelectSeq(new_price_list, LAMBDA price :
                        price.origin_group_detail = origin.origin_group_detail),
                    SelectSeq(origin_codes, LAMBDA origin :
                        StartsWith(origin.origin_code, origin_code)))
        \* otherwise: new_price_by_group[(group, detail)], the last row wins
        narrow == FlatMap(LAMBDA origin :
                    LET m == SelectSeq(new_price_list, LAMBDA price :
                            /\ price.origin_group = origin.origin_group
                            /\ price.origin_group_detail = origin.origin_group_detail)
                    IN  IF m = <<>> THEN <<>> ELSE <<m[Len(m)]>>,
                    SelectSeq(origin_codes, LAMBDA origin : origin.origin_code = origin_code))
        WideRow(price_item) ==
            LET matching_new_prices == SelectSeq(wide, LAMBDA price :
                    /\ price.origin_group = price_item.origin_group
                    /\ price.origin_region = price_item.region)
                max_price_item == MaxRateItem(matching_new_prices)
            IN  IF matching_new_prices # <<>>
                THEN <<DialRecord(price_item.region, price_item.dial_codes, max_price_item.rate,
                           IF price_item.effective_date # <<>> THEN price_item.effective_date
                           ELSE max_price_item.effective_date,
                           routing)>>
                ELSE <<>>
        NarrowRow(price_item) ==
            LET matching_new_price == First(LAMBDA price :
                    price.origin_group = price_item.origin_group, narrow)
                src == IF matching_new_price # <<>> THEN matching_new_price[1] ELSE price_item
            IN  <<DialRecord(price_item.region, price_item.dial_codes, src.rate,
                             src.effective_date, routing)>>
    IN  IF origin_code = Code44
        THEN FlatMap(WideRow, price_list_destinations)
        ELSE FlatMap(NarrowRow, price_list_destinations)

\* OBRService._compare_qxtel_data
CompareQxtelData(price_list, new_price_list, origin_codes, obr_master_data) ==
    FlatMap(LAMBDA vendor : QxtelVendor(vendor, price_list, new_price_list, origin_codes),
            MasterOf(obr_master_data, QxtelUpper))
    \o Map(LAMBDA price_item : DialRecord(price_item.region, price_item.dial_codes,
                                   price_item.rate, price_item.effective_date, <<>>),
           price_list)

(***************************************************************************)
(* Oteglobe                                                                *)
(***************************************************************************)
OteglobeUpper == <<"O","T","E","G","L","O","B","E">>

\* The records of one master row (obr_service.py).
OteglobeVendor(vendor, price_list, new_price_list, origins) ==
    LET destiny_code == vendor.destiny_code
        matching_origins == SelectSeq(origins, LAMBDA origin :
            origin.dial_code = vendor.origin_code)
        available_prices == FlatMap(LAMBDA origin :
            SelectSeq(new_price_list, LAMBDA price :
                price.origin = origin.origin /\ StartsWith(price.dial_code, destiny_code)),
            matching_origins)
        available_prices_by_destiny == SelectSeq(available_prices, LAMBDA price :
            Contains(Upper(price.destination), Upper(vendor.destiny)))
        Row(item) ==
            LET dial_code_clean == DigitsOnly(item.dial_code)
                new_price == First(LAMBDA price : price.dial_code = dial_code_clean,
                                   available_prices_by_destiny)
                src == IF new_price # <<>> THEN new_price[1] ELSE item
            IN  <<DialRecord(item.destination, item.dial_code, src.rate, src.effective_date,
                             vendor.routing)>>
    IN  FlatMap(Row, SelectSeq(price_list, LAMBDA price :
                         StartsWith(price.dial_code, destiny_code)))

\* OBRService._compare_oteglobe_data(vendor_name="OTEGLOBE")
CompareOteglobeData(price_list, new_price_list, origins, obr_master_data) ==
    FlatMap(LAMBDA vendor : OteglobeVendor(vendor, price_list, new_price_list, origins),
            MasterOf(obr_master_data, OteglobeUpper))
    \o Map(LAMBDA price_item : DialRecord(price_item.destination, price_item.dial_code,
                                   price_item.rate, price_item.effective_date, <<>>),
           price_list)

\* OteglobeComparisonStrategy.compare (obr_master already filtered)
OteglobeStrategyCompare(price_list, new_price_list, origins, obr_master) ==
    LET RowsOf(vendor) ==
            LET prices_filtered == SelectSeq(price_list, LAMBDA item :
                    StartsWith(item.dial_code, vendor.destiny_code))
                origins_filtered == SelectSeq(origins, LAMBDA item :
                    /\ Contains(Upper(item.origin), Upper(vendor.destiny))
                    /\ item.dial_code = vendor.origin_code)
                available_new_prices == FlatMap(LAMBDA origin :
                    SelectSeq(new_price_list, LAMBDA np : np.origin = origin.origin),
                    origins_filtered)
            IN  Map(LAMBDA item :
                        LET new_price == First(LAMBDA np : np.destination = item.destination,
                                               available_new_prices)
                        IN  StrategyRecord(item.destination, item.dial_code,
                                IF new_price # <<>> THEN new_price[1].rate ELSE item.rate),
                    prices_filtered)
    IN  FoldLeft(LAMBDA acc, rec :
                    IF rec.country_code \in acc.seen THEN acc
                    ELSE [out |-> Append(acc.out, rec),
                          seen |-> acc.seen \cup {rec.country_code}],
                 [out |-> <<>>, seen |-> {}], FlatMap(RowsOf, obr_master)).out

(***************************************************************************)
(* Arelion                                                                 *)
(***************************************************************************)
ArelionUpper == <<"A","R","E","L","I","O","N">>

\* price_list_destinations of one master row: the rows whose destination
\* contains the row's destiny.
ArelionDestinations(vendor, price_list) ==
    SelectSeq(price_list, LAMBDA price :
        Contains(Upper(price.destination), Upper(vendor.destiny)))

\* The body of "for item in price_list_destinations" reads the name
\* allow_duplicates, which _compare_arelion_data does not define (it is a
\* parameter of _compare_oteglobe_data only): the first item raises NameError.
ArelionRaises(price_list, obr_master_data) ==
    \E k \in 1..Len(MasterOf(obr_master_data, ArelionUpper)) :
        ArelionDestinations(MasterOf(obr_master_data, ArelionUpper)[k], price_list) # <<>>

\* OBRService._compare_arelion_data when it returns: the loop over the master
\* rows has added nothing, and the final pass adds the rows by unique dial code.
CompareArelionData(price_list, new_price_list, origins, obr_master_data) ==
    FoldLeft(LAMBDA acc, price_item :
                IF price_item.dial_code \in acc.seen THEN acc
                ELSE [out |-> Append(acc.out,
                                 DialRecord(price_item.destination, price_item.dial_code,
                                            price_item.rate, price_item.effective_date, <<>>)),
                      seen |-> acc.seen \cup {price_item.dial_code}],
             [out |-> <<>>, seen |-> {}], price_list).out

(***************************************************************************)
(* The CSV writers                                                         *)
(***************************************************************************)
DigitChars == <<"0","1","2","3","4","5","6","7","8","9">>

RECURSIVE NatToStr(_)
NatToStr(n) == IF n < 10 THEN <<DigitChars[n + 1]>>
               ELSE NatToStr(n \div 10) \o <<DigitChars[(n % 10) + 1]>>

Zeros(k) == [i \in 1..k |-> "0"]

\* format(float(price), '.<places>f') for a rate given in hundredths
FormatFixed(rate, places) ==
    NatToStr(rate \div 100) \o <<".">> \o
    <<DigitChars[((rate % 100) \div 10) + 1], DigitChars[(rate % 10) + 1]>> \o Zeros(places - 2)

RECURSIVE RStripChar(_,_)
RStripChar(s, c) == IF s # <<>> /\ s[Len(s)] = c
                    THEN RStripChar(SubSeq(s, 1, Len(s) - 1), c) ELSE s

\* f"{float(price):.10f}".rstrip('0').rstrip('.')
FormatVariable(rate) == RStripChar(RStripChar(FormatFixed(rate, 10), "0"), ".")

\* start_date.split(" ")[0] when the date holds a blank
DatePart(start_date) ==
    IF Contains(start_date, <<" ">>) THEN Split(start_date, {" "})[1] ELSE start_date

\* (country_area, destinations, origin_name) of a < that of b
SortKeyLess(a, b) ==
    LET ka == <<Get(a, "country_area", <<>>), Get(a, "destinations", <<>>),
                Get(a, "origin_name", <<>>)>>
        kb == <<Get(b, "country_area", <<>>), Get(b, "destinations", <<>>),
                Get(b, "origin_name", <<>>)>>
    IN  \/ StrLess(ka[1], kb[1])
        \/ ka[1] = kb[1] /\ StrLess(ka[2], kb[2])
        \/ ka[1] = kb[1] /\ ka[2] = kb[2] /\ StrLess(ka[3], kb[3])

\* sorted(data, key=...): stable, an item goes after the items not
\* greater than it
SortedCsvData(data) ==
    FoldLeft(LAMBDA acc, x :
                LET k == Cardinality({i \in 1..Len(acc) : ~SortKeyLess(x, acc[i])})
                    \* acc is sorted: the items not greater than x are a prefix
                IN  SubSeq(acc, 1, k) \o <<x>> \o SubSeq(acc, k + 1, Len(acc)),
             <<>>, data)

\* One data row of the file: the five columns, in order.
CsvRow(item, price, date) ==
    <<item.destinations, item.country_area, price, date, item.origin_name>>

\* OBRService._generate_csv_file: the rows after the header
GenerateCsvFile(data, decimal_places, use_variable_decimals) ==
    Map(LAMBDA item :
            CsvRow(item,
                   IF use_variable_decimals THEN FormatVariable(item.price_min)
                   ELSE FormatFixed(item.price_min, decimal_places),
                   DatePart(item.start_date)),
        SortedCsvData(data))

\* datetime.strptime(text, "%Y-%m-%d") succeeds: the dates of the model are
\* written yyyy-mm-dd, so the test is on the shape
IsIsoDate(text) ==
    /\ Len(text) = 10
    /\ \A i \in {1, 2, 3, 4, 6, 7, 9, 10} : text[i] \in Digits
    /\ text[5] = "-" /\ text[8] = "-"

HgcTimeSuffix == <<" ","1","2",":","0","0",":","0","0"," ","A","M">>

\* The date column of _generate_csv_file_hgc: parsed, then written back
\* with a fixed time of day; the text as it is when parsing fails.
HgcDate(start_date) ==
    LET day == Split(start_date, {" "})[1]
    IN  IF Contains(start_date, <<"-">>) /\ IsIsoDate(day) THEN day \o HgcTimeSuffix
        ELSE start_date

\* OBRService._generate_csv_file_hgc: the rows after the header
GenerateCsvFileHgc(data) ==
    Map(LAMBDA item : CsvRow(item, FormatFixed(item.price_min, 5), HgcDate(item.start_date)),
        SortedCsvData(data))

\* str(float) as csv.DictWriter writes a rate given in hundredths
FloatStr(rate) ==
    LET t == RStripChar(FormatFixed(rate, 2), "0")
    IN  IF t[Len(t)] = "." THEN t \o <<"0">> ELSE t

\* VendorProcessorBase._generate_csv_file: three columns, the rows in the
\* order of csv_data; nothing is written for an empty list.
GenerateCsvFileBase(data) ==
    Map(LAMBDA row : <<Get(row, "destinations", <<>>), Get(row, "country_code", <<>>),
                       FloatStr(Get(row, "price_min", 0))>>,
        data)

(***************************************************************************)
(* Inputs: the rows read from the vendor's sheets and the master rows      *)
(***************************************************************************)
MaxPrice == 2      \* rows of the price list
MaxSecond == 2     \* rows of the second sheet
MaxThird == 1      \* rows of the third sheet (three-sheet vendors)
MaxMaster == 2     \* master rows

\* The non-empty lists of at most n rows drawn from S
Lists(S, n) == UNION {[1..k -> S] : k \in 1..n}

Date1 == <<"2","0","2","5","-","0","1","-","0","1">>
Date2 == <<"2","0","2","5","-","0","2","-","0","1"," ","0","0",":","0","0",":","0","0">>

\* A row of OBR master data (ObrRepository.get_obr_master_data)
Master(vendor, origin_code, destiny_code, destiny, routing, origin) ==
    [vendor |-> vendor, origin_code |-> origin_code, destiny_code |-> destiny_code,
     destiny |-> destiny, routing |-> routing, origin |-> origin]

OtherVendor == <<"O","t","h","e","r">>
Italy == <<"I","t","a","l","y">>
RouteR1 == <<"R","1">>
RouteR2 == <<"R","2">>

\* ORDER BY Vendor, OriginCode, DestinyCode: row a may stand before row b.
\* The collation of the database is not in the source: a list is kept when
\* it is in order both with and without regard to case.
MasterKeyLessEq(a, b, fold(_)) ==
    \/ StrLess(fold(a.vendor), fold(b.vendor))
    \/ /\ fold(a.vendor) = fold(b.vendor)
       /\ \/ StrLess(a.origin_code, b.origin_code)
          \/ a.origin_code = b.origin_code /\ ~StrLess(b.destiny_code, a.destiny_code)

\* The lists of at most n master rows the repository can return
MasterLists(S, n) ==
    { m \in Lists(S, n) :
        \A i \in 1..Len(m) : \A j \in 1..Len(m) :
            i < j => /\ MasterKeyLessEq(m[i], m[j], Upper)
                     /\ MasterKeyLessEq(m[i], m[j], LAMBDA x : x) }

\* A master row of some other vendor: every function filters it out.
ForeignMaster == Master(OtherVendor, Code376, Code39, Italy, RouteR2, Italy)

\* Belgacom: a row of the price list and a row of the A-number pricing
BelgacomPrice(destinations, country_code, area_code, price_min, start_date) ==
    [destinations |-> destinations, country_code |-> country_code,
     area_code |-> area_code, price_min |-> price_min, start_date |-> start_date,
     country_area |-> country_code \o area_code]

ANumber(origin, reference_destinations, price_min, start_date) ==
    [origin |-> origin, reference_destinations |-> reference_destinations,
     price_min |-> price_min, start_date |-> start_date]

BelgacomPrices ==
    { BelgacomPrice(<<"I","t","a","l","y"," ","M","o","b","i","l","e"," ","T","i","m">>, Code39, <<"3">>, 5, Date1),
      BelgacomPrice(<<"I","T","A","L","Y"," ","M","O","B","I","L","E"," ","T","I","M">>, Code39, <<>>, 3, Date2),
      BelgacomPrice(Italy, Code39, <<"0">>, 8, Date1),
      BelgacomPrice(<<"G","l","o","b","a","l">>, <<"8","8","2">>, <<"3","7">>, 4, <<>>) }

BelgacomANumbers ==
    { ANumber(Code376, Italy, 7, Date2),
      ANumber(Code376, Italy, 8, Date1),
      ANumber(Code376, ItalyMobileTim, 6, Date2),
      ANumber(<<"4">>, <<"I","T","A","L","Y"," ","M","O","B","I","L","E"," ","T","I","M">>, 9, Date1),
      ANumber(<<"3","3">>, <<"I","t","a","l","y"," ","M","o","b","i","l","e"," ","T","i","m">>, 9, Date2),
      ANumber(<<"5">>, <<"I","t","a","l","y"," ","M","o","b","i","l","e"," ","T","i","m">>, 12, Date1) }

BelgacomMasters ==
    { Master(BelgacomPlatinumUpper, Code376, Code39, Italy, <<"T","r","a","f","f","i","c"," ","F","r","o","m"," ","E","U">>, Italy),
      Master(<<"B","e","l","g","a","c","o","m"," ","P","l","a","t","i","n","u","m">>, Code376, Code39, Italy, TrafficFromEu, Italy),
      Master(BelgacomPlatinumUpper, <<"3","7","7">>, Code39, Italy, <<"T","r","a","f","f","i","c"," ","F","r","o","m"," ","E","U">>, Italy),
      ForeignMaster }

BelgacomInputs ==
    [price_list : Lists(BelgacomPrices, MaxPrice),
     second : Lists(BelgacomANumbers, MaxSecond),
     third : {<<>>},
     master : MasterLists(BelgacomMasters, MaxMaster)]

\* Orange France and the generic two-sheet strategy: price list and origin
\* mapping rows
OrangePrice(destination, dial_codes, origin, effective_date, rate) ==
    [destination |-> destination, dial_codes |-> dial_codes, origin |-> origin,
     effective_date |-> effective_date, rate |-> rate]

OriginMap(origin_group, origin_name, dialed_digit) ==
    [origin_group |-> origin_group, origin_name |-> origin_name,
     dialed_digit |-> dialed_digit]

GroupG1 == <<"G","1">>
GroupG2 == <<"G","2">>
GroupG3 == <<"G","3">>
UK == <<"U","K">>

OrangePrices ==
    { OrangePrice(UK, <<"4","4",",","4","4","7">>, GroupG1, Date1, 5),
      OrangePrice(<<"U","K"," ","A","l","t">>, <<"4","4",",","4","4","7">>, GroupG2, Date2, 5),
      OrangePrice(<<"U","K"," ","T","o","p">>, <<"4","4",",","4","4","7">>, GroupG3, Date1, 9),
      OrangePrice(<<"U","K"," ","M","o","b","i","l","e">>, <<"4","4","7">>, <<>>, Date2, 8) }

OrangeOrigins ==
    { OriginMap(GroupG1, GroupG1, <<"1">>),
      OriginMap(GroupG2, GroupG1, Code44),
      OriginMap(GroupG1, GroupG2, <<"4","4","9">>),
      OriginMap(GroupG1, GroupG1, <<"4","4","9">>) }

OrangeMasters(vendor_name_upper) ==
    { Master(vendor_name_upper, <<"1">>, Code44, UK, RouteR1, GroupG1),
      Master(Lower(vendor_name_upper), Code44, Code44, UK, RouteR2, GroupG2),
      ForeignMaster }

OrangeInputs(vendor_name_upper) ==
    [price_list : Lists(OrangePrices, MaxPrice),
     second : Lists(OrangeOrigins, MaxSecond),
     third : {<<>>},
     master : MasterLists(OrangeMasters(vendor_name_upper), MaxMaster)]

\* Sunrise
SunrisePrice(destination, origin_set, origin, dial_codes, rate, effective_date) ==
    [destination |-> destination, origin_set |-> origin_set, origin |-> origin,
     dial_codes |-> dial_codes, rate |-> rate, effective_date |-> effective_date]

SunriseOriginRow(origin_set, origin_name, dialed_digit) ==
    [origin_set |-> origin_set, origin_name |-> origin_name, dialed_digit |-> dialed_digit]

Spain == <<"S","p","a","i","n">>
SetES == <<"E","S">>
ZoneEU == <<"E","U">>
ZoneLAT == <<"L","A","T">>

SunrisePrices ==
    { SunrisePrice(Spain, SetES, ZoneEU, <<"3","4",";","3","5">>, 5, Date1),
      SunrisePrice(Spain, SetES, ZoneEU, <<"3","4">>, 8, Date2),
      SunrisePrice(Spain, OriginSetNL, ZoneEU, <<"3","6","-","3","4">>, 8, Date1),
      SunrisePrice(<<"P","e","r","u">>, SetES, ZoneLAT, <<"5","1">>, 3, Date1) }

SunriseOrigins ==
    { SunriseOriginRow(SetES, ZoneEU, <<"1">>),
      SunriseOriginRow(OriginSetNL, ZoneEU, <<"1">>),
      SunriseOriginRow(SetES, ZoneLAT, <<"2">>) }

SunriseMasters ==
    { Master(SunriseUpper, <<"1">>, <<"3","4">>, Spain, <<"V","o","d","a","f","o","n","e">>, ZoneEU),
      Master(<<"S","u","n","r","i","s","e">>, <<"2">>, <<"5","1">>, <<"P","e","r","u">>, RouteR1, ZoneLAT),
      ForeignMaster }

SunriseInputs ==
    [price_list : Lists(SunrisePrices, MaxPrice),
     second : Lists(SunriseOrigins, MaxSecond),
     third : {<<>>},
     master : MasterLists(SunriseMasters, MaxMaster)]

\* HGC
HgcPriceRow(destination, dial_code, routing, effective_date, rate) ==
    [destination |-> destination, dial_code |-> dial_code, routing |-> routing,
     effective_date |-> effective_date, rate |-> rate]

RouteRA == <<"R","A">>
RouteRB == <<"R","B">>
Code447 == <<"4","4","7">>

HgcPrices ==
    { HgcPriceRow(UK, Code447, <<>>, Date1, 5),
      HgcPriceRow(UK, Code447, RouteRA, Date2, 8),
      HgcPriceRow(<<"u","k">>, Code447, RouteRB, Date1, 8),
      HgcPriceRow(<<>>, <<"3","3">>, <<>>, Date1, 3) }

HgcOrigins ==
    { OriginMap(<<>>, RouteRA, <<"1">>),
      OriginMap(<<>>, RouteRB, <<"1">>),
      OriginMap(<<>>, RouteRA, Code44) }

HgcMasters ==
    { Master(HgcPremiumUpper, Code44, Code44, UK, <<"O","B","R"," ","1">>, UK),
      Master(<<"H","g","c"," ","P","r","e","m","i","u","m">>, <<"1">>, Code44, UK, RouteR1, UK),
      ForeignMaster }

HgcInputs ==
    [price_list : Lists(HgcPrices, MaxPrice),
     second : Lists(HgcOrigins, MaxSecond),
     third : {<<>>},
     master : MasterLists(HgcMasters, MaxMaster)]

\* Qxtel: price list, new price list and origin codes (three files)
QxtelPrice(region, dial_codes, rate, effective_date, origin_group) ==
    [region |-> region, dial_codes |-> dial_codes, rate |-> rate,
     effective_date |-> effective_date, origin_group |-> origin_group]

QxtelNewPrice(origin_group, origin_group_detail, origin_region, rate, effective_date) ==
    [origin_group |-> origin_group, origin_group_detail |-> origin_group_detail,
     origin_region |-> origin_region, rate |-> rate, effective_date |-> effective_date]

QxtelOriginCode(origin_code, origin_group, origin_group_detail) ==
    [origin_code |-> origin_code, origin_group |-> origin_group,
     origin_group_detail |-> origin_group_detail]

DetailD1 == <<"D","1">>
DetailD2 == <<"D","2">>

QxtelPrices ==
    { QxtelPrice(UK, Code447, 5, Date1, GroupG1),
      QxtelPrice(UK, Code447, 3, <<>>, GroupG1),
      QxtelPrice(<<"F","r","a","n","c","e">>, <<"3","3">>, 4, Date1, GroupG2) }

QxtelNewPrices ==
    { QxtelNewPrice(GroupG1, DetailD1, UK, 8, Date1),
      QxtelNewPrice(GroupG1, DetailD2, UK, 8, Date2),
      QxtelNewPrice(GroupG1, DetailD1, UK, 6, Date2) }

QxtelOriginCodes ==
    { QxtelOriginCode(Code44, GroupG1, DetailD1),
      QxtelOriginCode(Code447, GroupG1, DetailD2),
      QxtelOriginCode(<<"1">>, GroupG1, DetailD1) }

QxtelMasters ==
    { Master(QxtelUpper, Code44, Code44, UK, RouteR1, UK),
      Master(<<"Q","x","t","e","l">>, <<"1">>, Code44, UK, RouteR2, UK),
      ForeignMaster }

QxtelInputs ==
    [price_list : Lists(QxtelPrices, MaxPrice),
     second : Lists(QxtelNewPrices, MaxSecond),
     third : Lists(QxtelOriginCodes, MaxThird),
     master : MasterLists(QxtelMasters, MaxMaster)]

\* Oteglobe: price list, new price list and origins (three sheets)
OtePrice(destination, dial_code, rate, effective_date) ==
    [destination |-> destination, dial_code |-> dial_code, rate |-> rate,
     effective_date |-> effective_date, routing |-> <<>>]

OteNewPrice(destination, dial_code, origin, rate, effective_date) ==
    [destination |-> destination, dial_code |-> dial_code, origin |-> origin,
     rate |-> rate, effective_date |-> effective_date]

OteOrigin(origin, dial_code) == [origin |-> origin, dial_code |-> dial_code]

UKMobile == <<"U","K"," ","M","o","b","i","l","e">>
Code44700 == <<"4","4","7","0","0">>
OriginY == <<"Y">>
OriginZ == <<"Z">>

OtePrices ==
    { OtePrice(UKMobile, Code44700, 5, Date1),
      OtePrice(UKMobile, <<"4","4","-","7","0","0">>, 3, Date1),
      OtePrice(<<"F","r","a","n","c","e">>, <<"3","3">>, 4, Date2) }

OteNewPrices ==
    { OteNewPrice(UKMobile, Code44700, OriginY, 8, Date2),
      OteNewPrice(<<"M","o","b","i","l","e">>, Code44700, OriginY, 9, Date1),
      OteNewPrice(<<"u","k"," ","f","i","x","e","d">>, Code44700, OriginZ, 6, Date1) }

OteOrigins ==
    { OteOrigin(OriginY, <<"1">>),
      OteOrigin(OriginZ, <<"1">>),
      OteOrigin(OriginY, <<"2">>) }

OteMasters ==
    { Master(OteglobeUpper, <<"1">>, Code44, UK, RouteR1, UK),
      Master(<<"O","t","e","g","l","o","b","e">>, <<"2">>, <<"4">>, UK, RouteR2, UK),
      ForeignMaster }

OteglobeInputs ==
    [price_list : Lists(OtePrices, MaxPrice),
     second : Lists(OteNewPrices, MaxSecond),
     third : Lists(OteOrigins, MaxThird),
     master : MasterLists(OteMasters, MaxMaster)]

\* Arelion: the same three sheets
ArelionMasters ==
    { Master(ArelionUpper, <<"1">>, Code44, UK, RouteR1, UK),
      Master(<<"A","r","e","l","i","o","n">>, <<"2">>, <<"3","9">>, Italy, RouteR2, Italy),
      ForeignMaster }

ArelionInputs ==
    [price_list : Lists(OtePrices, MaxPrice),
     second : Lists(OteNewPrices, MaxSecond),
     third : Lists(OteOrigins, MaxThird),
     master : MasterLists(ArelionMasters, MaxMaster)]

(***************************************************************************)
(* One run of the engine: compare, then write the CSV                      *)
(***************************************************************************)
ServiceFns == {"belgacom", "sunrise", "qxtel", "orange_france_platinum",
               "orange_france_win", "hgc", "oteglobe", "arelion"}
StrategyFns == {"belgacom_strategy", "two_sheet_generic", "oteglobe_strategy"}

\* VendorProcessorBase._get_obr_master_data_cached: the master rows of the
\* processor's vendor
FilteredMaster(all_master_data, vendor_name_upper) ==
    SelectSeq(all_master_data, LAMBDA record :
        Upper(Get(record, "vendor", <<>>)) = vendor_name_upper)

\* The list the comparison function of the run returns.
CompareData(f, i) ==
    CASE f = "belgacom" -> CompareBelgacomData(i.price_list, i.second, i.master)
      [] f = "belgacom_strategy" ->
            BelgacomStrategyCompare(i.price_list, i.second,
                                    FilteredMaster(i.master, BelgacomPlatinumUpper))
      [] f = "two_sheet_generic" ->
            TwoSheetGenericCompare(i.price_list, i.second,
                                   FilteredMaster(i.master, OrangeFrancePlatinumUpper))
      [] f = "sunrise" -> CompareSunriseData(i.price_list, i.second, i.master)
      [] f = "hgc" -> CompareHgcData(i.price_list, i.second, i.master)
      [] f = "orange_france_platinum" ->
            CompareOrangeFrancePlatinumData(i.price_list, i.second, i.master)
      [] f = "orange_france_win" ->
            CompareOrangeFranceWinData(i.price_list, i.second, i.master)
      [] f = "qxtel" -> CompareQxtelData(i.price_list, i.second, i.third, i.master)
      [] f = "oteglobe" -> CompareOteglobeData(i.price_list, i.second, i.third, i.master)
      [] f = "arelion" -> CompareArelionData(i.price_list, i.second, i.third, i.master)
      [] f = "oteglobe_strategy" ->
            OteglobeStrategyCompare(i.price_list, i.second, i.third,
                                    FilteredMaster(i.master, OteglobeUpper))

\* The data rows of the file the run writes for the list.
WriteCsv(f, data) ==
    CASE f = "belgacom" -> GenerateCsvFile(data, 4, TRUE)
      [] f = "sunrise" -> GenerateCsvFile(data, 4, FALSE)
      [] f = "qxtel" -> GenerateCsvFile(data, 4, FALSE)
      [] f \in {"orange_france_platinum", "orange_france_win"} ->
            GenerateCsvFile(data, 6, FALSE)
      [] f \in {"oteglobe", "arelion"} -> GenerateCsvFile(data, 4, FALSE)
      [] f = "hgc" -> GenerateCsvFileHgc(data)
      [] f \in StrategyFns -> GenerateCsvFileBase(data)

InputsOf(f) ==
    CASE f \in {"belgacom", "belgacom_strategy"} -> BelgacomInputs
      [] f \in {"two_sheet_generic", "orange_france_platinum"} ->
            OrangeInputs(OrangeFrancePlatinumUpper)
      [] f = "orange_france_win" -> OrangeInputs(OrangeFranceWinUpper)
      [] f = "sunrise" -> SunriseInputs
      [] f = "hgc" -> HgcInputs
      [] f = "qxtel" -> QxtelInputs
      [] f \in {"oteglobe", "oteglobe_strategy"} -> OteglobeInputs
      [] f = "arelion" -> ArelionInputs

\* The comparison function raises an exception instead of returning.
Raises(f, i) == f = "arelion" /\ ArelionRaises(i.price_list, i.master)

\* No lookup of the master data is in progress (the engine alone is observed).
\* No function is called on its own.
CallIdle ==
    /\ call = <<>>
    /\ result = <<>>

\* No strategy instance has been called.
StrategyIdle ==
    /\ unique_codes = {}
    /\ returned = <<>>

CacheIdle ==
    /\ cache = <<>>
    /\ cache_expiry = <<>>
    /\ now = 0
    /\ callers = <<>>
    /\ fetch_log = <<>>
    /\ lookups = <<>>

\* No upload has been made (the engine alone is observed).
RunsIdle ==
    /\ runs = <<>>
    /\ temp_dir = <<>>
    /\ access_log = {}

InitFns(fns) ==
    /\ fn \in fns
    /\ inp \in InputsOf(fn)
    /\ csv_data = <<>>
    /\ written = <<>>
    /\ pc = "start"
    /\ CacheIdle
    /\ RunsIdle
    /\ StrategyIdle
    /\ CallIdle

Init == InitFns(ServiceFns \cup StrategyFns)

\* Step 5 of a run: list_to_send_in_csv = the comparison of the sheets
Compare ==
    /\ pc = "start"
    /\ csv_data' = IF Raises(fn, inp) THEN <<>> ELSE CompareData(fn, inp)
    /\ pc' = IF Raises(fn, inp) THEN "raised" ELSE "compared"
    /\ UNCHANGED <<fn, inp, written>>
    /\ UNCHANGED cacheVars
    /\ UNCHANGED runVars
    /\ UNCHANGED strategyVars
    /\ UNCHANGED callVars

\* Step 6 of a run: the CSV file is written from the list
GenerateCsv ==
    /\ pc = "compared"
    /\ written' = WriteCsv(fn, csv_data)
    /\ pc' = "written"
    /\ UNCHANGED <<fn, inp, csv_data>>
    /\ UNCHANGED cacheVars
    /\ UNCHANGED runVars
    /\ UNCHANGED strategyVars
    /\ UNCHANGED callVars

Next == Compare \/ GenerateCsv

Spec == Init /\ [][Next]_vars

SpecBelgacom == InitFns({"belgacom", "belgacom_strategy"}) /\ [][Next]_vars

(***************************************************************************)
(* Properties                                                              *)
(***************************************************************************)
Compared == pc \in {"compared", "written"}

\* The rows of the run's vendor among the master rows
VendorUpperOf(f) ==
    CASE f \in {"belgacom", "belgacom_strategy"} -> BelgacomPlatinumUpper
      [] f \in {"two_sheet_generic", "orange_france_platinum"} -> OrangeFrancePlatinumUpper
      [] f = "orange_france_win" -> OrangeFranceWinUpper
      [] f = "sunrise" -> SunriseUpper
      [] f = "hgc" -> HgcPremiumUpper
      [] f = "qxtel" -> QxtelUpper
      [] f \in {"oteglobe", "oteglobe_strategy"} -> OteglobeUpper
      [] f = "arelion" -> ArelionUpper

VendorMasters == MasterOf(inp.master, VendorUpperOf(fn))

\* Destination, rate and dial codes of a base (price-list) row
BaseDest(p) ==
    IF "destinations" \in DOMAIN p THEN p.destinations
    ELSE IF "region" \in DOMAIN p THEN p.region ELSE p.destination

BaseRate(p) == IF "price_min" \in DOMAIN p THEN p.price_min ELSE p.rate

BaseCodes(p) ==
    IF "country_code" \in DOMAIN p THEN {p.country_code}
    ELSE IF "dial_code" \in DOMAIN p THEN {p.dial_code}
    ELSE Range(ParseAndSplitDialCodes(p.dial_codes)) \cup Range(CommaCodes(p.dial_codes))
         \cup {p.dial_codes}

\* A record of the matched pass: it carries a routing label, or comes from
\* a function that has no other pass.
IsRouted(r) == IF "origin_name" \in DOMAIN r THEN r.origin_name # <<>> ELSE TRUE
IsFallback(r) == "origin_name" \in DOMAIN r /\ r.origin_name = <<>>

\* The base row joins no master row of the vendor: compared alone, with the
\* same other sheets and master rows, it gives no record of the matched pass.
MatchedNoMaster(p) ==
    LET alone == CompareData(fn, [inp EXCEPT !.price_list = <<p>>])
    IN  \A k \in 1..Len(alone) : ~IsRouted(alone[k])

\* C1: in every reconciliation function, each base row that matched no master
\* record of the vendor yields a fallback record with empty origin label that
\* carries the row's dial code, destination and rate.
C1_FallbackForUnmatched ==
    Compared =>
        \A i \in 1..Len(inp.price_list) :
            LET p == inp.price_list[i]
            IN  MatchedNoMaster(p) =>
                    \E k \in 1..Len(csv_data) :
                        /\ IsFallback(csv_data[k])
                        /\ csv_data[k].country_code \in BaseCodes(p)
                        /\ csv_data[k].destinations = BaseDest(p)
                        /\ csv_data[k].price_min = BaseRate(p)

\* C2: for the generic two-sheet strategy and the comma-expanded (Orange
\* France) functions, no two records of one output share a dial code.
C2_UniqueDialCode ==
    (Compared /\ fn \in {"two_sheet_generic", "orange_france_win", "orange_france_platinum"}) =>
        \A i \in 1..Len(csv_data) : \A j \in 1..Len(csv_data) :
            i # j => csv_data[i].country_code # csv_data[j].country_code

\* The largest element of a non-empty set of rates
SetMax(S) == CHOOSE m \in S : \A x \in S : x <= m

\* The master rows and price rows of the Belgacom special case, and the rates
\* of the A-number rows it draws from
IsSpecialMaster(v) ==
    /\ Lower(v.routing) = TrafficFromEu
    /\ v.origin_code = Code376
    /\ v.destiny_code = Code39

IsSpecialPrice(p) == p.country_code = Code39 /\ Lower(p.destinations) = ItalyMobileTim

SpecialRates ==
    { inp.second[k].price_min : k \in
        { k \in 1..Len(inp.second) :
            /\ inp.second[k].origin[1] \in {"3", "4"}
            /\ Lower(inp.second[k].reference_destinations) = ItalyMobileTim } }

\* The records emitted for price row p under the label of master row v
RoutedFor(v, p) ==
    { k \in 1..Len(csv_data) :
        /\ csv_data[k].origin_name = v.routing
        /\ csv_data[k].country_area = p.country_area
        /\ csv_data[k].destinations = p.destinations }

\* Another master row of the vendor writes the same label for the same
\* price rows without being a special-case row.
SharesLabel(v) ==
    \E k \in 1..Len(VendorMasters) :
        /\ VendorMasters[k].routing = v.routing
        /\ VendorMasters[k].destiny_code = v.destiny_code
        /\ ~IsSpecialMaster(VendorMasters[k])

\* C3: for a special-case master row (routing 'traffic from eu' in any case,
\* origin code 376, destiny code 39) and a price row of country code 39 whose
\* destination is 'italy mobile tim' in any case, the routed record carries
\* the largest rate of the A-number rows whose origin starts with 3 or 4 and
\* whose reference destination is 'italy mobile tim' in any case, and no
\* routed record is emitted (so never the base rate) when there is no such
\* A-number row.  Both implementations.
C3_ItalyMobileTimMax ==
    (Compared /\ fn \in {"belgacom", "belgacom_strategy"}) =>
        \A i \in 1..Len(VendorMasters) : \A j \in 1..Len(inp.price_list) :
            LET v == VendorMasters[i]
                p == inp.price_list[j]
            IN  (IsSpecialMaster(v) /\ IsSpecialPrice(p) /\ ~SharesLabel(v)) =>
                    IF SpecialRates = {} THEN RoutedFor(v, p) = {}
                    ELSE /\ RoutedFor(v, p) # {}
                         /\ \A k \in RoutedFor(v, p) :
                                csv_data[k].price_min = SetMax(SpecialRates)

\* A run of the service function in which the special case applied: two
\* A-number rows of different rates qualify, and the record carries the larger
\* rate, which is not the price row's.
C3_Witness ==
    /\ pc = "compared" /\ fn = "belgacom"
    /\ Cardinality(SpecialRates) = 2
    /\ \E i \in 1..Len(VendorMasters) : \E j \in 1..Len(inp.price_list) :
        /\ IsSpecialMaster(VendorMasters[i]) /\ IsSpecialPrice(inp.price_list[j])
        /\ ~SharesLabel(VendorMasters[i])
        /\ \E k \in RoutedFor(VendorMasters[i], inp.price_list[j]) :
            /\ csv_data[k].price_min = SetMax(SpecialRates)
            /\ csv_data[k].price_min # inp.price_list[j].price_min

\* The new-price rows the claim names for master row v and base row p: dial
\* code equal to the digits of the base dial code, origin linked to the
\* origin code by a row of the origins sheet, destination containing the destiny.
LinkedNewPrices(v, p) ==
    SelectSeq(inp.second, LAMBDA n :
        /\ n.dial_code = DigitsOnly(p.dial_code)
        /\ \E k \in 1..Len(inp.third) :
               inp.third[k].dial_code = v.origin_code /\ inp.third[k].origin = n.origin
        /\ Contains(Upper(n.destination), Upper(v.destiny)))

\* The end-to-end scenario of the specification
ScenarioE2E ==
    [price_list |-> <<OtePrice(UKMobile, Code44700, 5, Date1)>>,
     second |-> <<OteNewPrice(UKMobile, Code44700, OriginY, 8, Date2)>>,
     third |-> <<OteOrigin(OriginY, <<"1">>)>>,
     master |-> <<Master(OteglobeUpper, <<"1">>, Code44, UK, RouteR1, UK)>>]

\* C5: for each master row and each base row whose dial code starts with the
\* destiny code, a routed record carries the rate and date of a linked
\* new-price row when one exists and the base row's otherwise; the scenario
\* gives exactly one record of price 0.08 labelled R1 and one fallback record
\* of price 0.05 with empty label.  Both implementations.
C5_NewPriceOverridesBase ==
    (Compared /\ fn \in {"oteglobe", "oteglobe_strategy"}) =>
        /\ \A i \in 1..Len(VendorMasters) : \A j \in 1..Len(inp.price_list) :
            LET v == VendorMasters[i]
                p == inp.price_list[j]
                found == LinkedNewPrices(v, p)
            IN  StartsWith(p.dial_code, v.destiny_code) =>
                    \E k \in 1..Len(csv_data) :
                        /\ "origin_name" \in DOMAIN csv_data[k]
                        /\ csv_data[k].origin_name = v.routing
                        /\ csv_data[k].country_code = p.dial_code
                        /\ IF found = <<>>
                           THEN /\ csv_data[k].price_min = p.rate
                                /\ csv_data[k].start_date = p.effective_date
                           ELSE \E n \in 1..Len(found) :
                                /\ csv_data[k].price_min = found[n].rate
                                /\ csv_data[k].start_date = found[n].effective_date
        /\ inp = ScenarioE2E =>
            csv_data = <<DialRecord(UKMobile, Code44700, 8, Date2, RouteR1),
                         DialRecord(UKMobile, Code44700, 5, Date1, <<>>)>>

\* The same statement for the service function alone.
C5_ServiceOnly == fn = "oteglobe" => C5_NewPriceOverridesBase

\* The order of the rows of the written file: the dial-code column, then the
\* destination column, then the label column (absent in a three-column file)
RowKeyLessEq(a, b) ==
    LET la == IF Len(a) = 5 THEN a[5] ELSE <<>>
        lb == IF Len(b) = 5 THEN b[5] ELSE <<>>
    IN  \/ StrLess(a[2], b[2])
        \/ a[2] = b[2] /\ StrLess(a[1], b[1])
        \/ a[2] = b[2] /\ a[1] = b[1] /\ (la = lb \/ StrLess(la, lb))

\* C8: the rows written to the output file are in non-decreasing order of
\* (dial code, destination, origin label), for every vendor and every input.
C8_WrittenSorted ==
    pc = "written" =>
        \A k \in 1..(Len(written) - 1) : RowKeyLessEq(written[k], written[k + 1])

\* The same statement for the writers of OBRService alone.
C8_ServiceOnly == fn \in ServiceFns => C8_WrittenSorted

SpecMax == InitFns({"belgacom", "sunrise", "orange_france_platinum", "qxtel", "hgc"})
           /\ [][Next]_vars

\* Among the rows of a non-empty list, the first one whose rate is the largest
FirstMax(s) ==
    s[CHOOSE i \in 1..Len(s) :
        /\ \A j \in 1..Len(s) : BaseRate(s[j]) <= BaseRate(s[i])
        /\ \A j \in 1..(i - 1) : BaseRate(s[j]) < BaseRate(s[i])]

\* Two rows of the list share its largest rate and differ in their dates
HasTie(s) ==
    \E i \in 1..Len(s) : \E j \in 1..Len(s) :
        /\ i < j
        /\ BaseRate(s[i]) = BaseRate(s[j])
        /\ \A k \in 1..Len(s) : BaseRate(s[k]) <= BaseRate(s[i])
        /\ Get(s[i], "effective_date", Get(s[i], "start_date", <<>>))
             # Get(s[j], "effective_date", Get(s[j], "start_date", <<>>))

\* Belgacom special case: the candidates, in input order
SpecialCandidates ==
    SelectSeq(inp.second, LAMBDA a :
        /\ (StartsWith(a.origin, <<"3">>) \/ StartsWith(a.origin, <<"4">>))
        /\ Lower(a.reference_destinations) = ItalyMobileTim)

\* The record of a special-case price row carries the rate and date of the
\* selected candidate (its destination is that candidate's up to case)
BelgacomPick ==
    \A i \in 1..Len(VendorMasters) : \A j \in 1..Len(inp.price_list) :
        LET v == VendorMasters[i]
            p == inp.price_list[j]
        IN  (IsSpecialMaster(v) /\ IsSpecialPrice(p) /\ ~SharesLabel(v)
               /\ SpecialCandidates # <<>>) =>
                \A k \in RoutedFor(v, p) :
                    /\ csv_data[k].price_min = FirstMax(SpecialCandidates).price_min
                    /\ csv_data[k].start_date = FirstMax(SpecialCandidates).start_date

\* HGC final pass: per dial code, the one empty-label record is that of the
\* first row of largest rate of the code (none when its destination or date
\* is empty)
HgcPick ==
    \A j \in 1..Len(inp.price_list) :
        LET d == inp.price_list[j].dial_code
            m == FirstMax(SelectSeq(inp.price_list, LAMBDA q : q.dial_code = d))
            recs == {k \in 1..Len(csv_data) :
                        IsFallback(csv_data[k]) /\ csv_data[k].country_code = d}
        IN  IF m.destination # <<>> /\ m.effective_date # <<>>
            THEN /\ Cardinality(recs) = 1
                 /\ \A k \in recs :
                        csv_data[k] = DialRecord(m.destination, d, m.rate, m.effective_date, <<>>)
            ELSE recs = {}

\* Sunrise final loop: an empty-label record is that of the first row of
\* largest rate of its destination, under the first code of that row
SunrisePick ==
    \A k \in 1..Len(csv_data) :
        IsFallback(csv_data[k]) =>
            LET m == FirstMax(SelectSeq(inp.price_list, LAMBDA q :
                         q.destination = csv_data[k].destinations))
            IN  csv_data[k] = DialRecord(m.destination,
                                  ParseAndSplitDialCodes(m.dial_codes)[1],
                                  m.rate, m.effective_date, <<>>)

\* Orange France Platinum, no origin-mapping row matching any master row of
\* the vendor: a labelled record is that of an untagged price row, or that of
\* the first row of largest rate among the rows sharing a tagged row's codes
NoOriginMatch ==
    \A i \in 1..Len(VendorMasters) : \A j \in 1..Len(inp.second) :
        inp.second[j].dialed_digit # VendorMasters[i].origin_code

PlatinumPick ==
    NoOriginMatch =>
        \A k \in 1..Len(csv_data) :
            IsRouted(csv_data[k]) =>
                \E j \in 1..Len(inp.price_list) :
                    LET p == inp.price_list[j]
                        m == IF p.origin = <<>> THEN p
                             ELSE FirstMax(SelectSeq(inp.price_list, LAMBDA q :
                                               q.dial_codes = p.dial_codes))
                    IN  /\ csv_data[k].country_code \in Range(CommaCodes(p.dial_codes))
                        /\ csv_data[k].destinations = m.destination
                        /\ csv_data[k].price_min = m.rate
                        /\ csv_data[k].start_date = m.effective_date

\* as_selected: the record carries the date of the selected candidate in
\* every case (the statement as first made).
\* Qxtel, master row v of origin code 44: the new-price rows a price row is
\* compared with, in the order the function lists them
QxtelCandidates(v, p) ==
    SelectSeq(
        FlatMap(LAMBDA o : SelectSeq(inp.second, LAMBDA n :
                               n.origin_group_detail = o.origin_group_detail),
                SelectSeq(inp.third, LAMBDA o : StartsWith(o.origin_code, v.origin_code))),
        LAMBDA n : n.origin_group = p.origin_group /\ n.origin_region = p.region)

QxtelSharesLabel(v) ==
    \E k \in 1..Len(VendorMasters) :
        VendorMasters[k].routing = v.routing /\ VendorMasters[k].origin_code # Code44

QxtelPick(as_selected) ==
    \A i \in 1..Len(VendorMasters) :
        LET v == VendorMasters[i]
        IN  (v.origin_code = Code44 /\ ~QxtelSharesLabel(v)) =>
                \A k \in 1..Len(csv_data) :
                    csv_data[k].origin_name = v.routing =>
                        \E j \in 1..Len(inp.price_list) :
                            LET p == inp.price_list[j]
                                c == QxtelCandidates(v, p)
                            IN  /\ c # <<>>
                                /\ csv_data[k].country_code = p.dial_codes
                                /\ csv_data[k].destinations = p.region
                                /\ csv_data[k].price_min = FirstMax(c).rate
                                /\ csv_data[k].start_date =
                                     IF ~as_selected /\ p.effective_date # <<>>
                                     THEN p.effective_date
                                     ELSE FirstMax(c).effective_date

PickSites(as_selected) ==
    Compared =>
        CASE fn = "belgacom" -> BelgacomPick
          [] fn = "hgc" -> HgcPick
          [] fn = "sunrise" -> SunrisePick
          [] fn = "orange_france_platinum" -> PlatinumPick
          [] fn = "qxtel" -> QxtelPick(as_selected)
          [] OTHER -> TRUE

MaxCallers == 2    \* runs that look the master data up
MaxLookups == 3    \* lookups started in all
MaxTime == 4       \* ticks of the clock
TtlTicks == 2      \* settings.cache_ttl_seconds, in ticks

CacheKey == "obr_master_data"
Callers == 1..MaxCallers

\* A variant of the expiry test: an entry never expires.
NeverExpired(t, expiry) == FALSE

\* A variant of the test below: the entry is gone at its expiry time already.
ExpiredAtExpiry(t, expiry) == t >= expiry

\* datetime.now() > self._cache_expiry[key]
Expired(t, expiry) == t > expiry

\* Every caller is between two lookups.
NoLookupRunning == \A c \in Callers : callers[c].at = "idle"

EngineIdle ==
    /\ fn = "none"
    /\ inp = [price_list |-> <<>>, second |-> <<>>, third |-> <<>>, master |-> <<>>]
    /\ csv_data = <<>>
    /\ written = <<>>
    /\ pc = "idle"

\* The module-level singleton cache_manager after construction, and callers
\* that have not yet asked for the master data.
InitCache ==
    /\ EngineIdle
    /\ cache = <<>>
    /\ cache_expiry = <<>>
    /\ now = 0
    /\ callers = [c \in Callers |-> [at |-> "idle", get_at |-> 0, fetched |-> 0]]
    /\ fetch_log = <<>>
    /\ lookups = <<>>
    /\ RunsIdle
    /\ StrategyIdle
    /\ CallIdle

LookupsStarted ==
    Len(lookups) + Cardinality({c \in Callers : callers[c].at # "idle"})

\* A run enters _get_obr_master_data_cached.
CallGetter(c) ==
    /\ callers[c].at = "idle"
    /\ LookupsStarted < MaxLookups
    /\ callers' = [callers EXCEPT ![c] = [at |-> "get", get_at |-> 0, fetched |-> 0]]
    /\ UNCHANGED <<cache, cache_expiry, now, fetch_log, lookups>>
    /\ UNCHANGED engineVars
    /\ UNCHANGED runVars
    /\ UNCHANGED strategyVars
    /\ UNCHANGED callVars

\* The same, when the runs follow one another: no other lookup is under way.
CallGetterAlone(c) ==
    /\ NoLookupRunning
    /\ CallGetter(c)

\* cache_manager.get(cache_key), under the manager's lock; a value that is
\* not None is returned at once.
CacheGet(c) ==
    /\ callers[c].at = "get"
    /\ IF CacheKey \notin DOMAIN cache
       THEN /\ callers' = [callers EXCEPT ![c].at = "fetch", ![c].get_at = now]
            /\ UNCHANGED <<cache, cache_expiry, lookups>>
       ELSE IF CacheKey \in DOMAIN cache_expiry /\ Expired(now, cache_expiry[CacheKey])
       THEN /\ cache' = <<>>
            /\ cache_expiry' = <<>>
            /\ callers' = [callers EXCEPT ![c].at = "fetch", ![c].get_at = now]
            /\ UNCHANGED lookups
       ELSE /\ lookups' = Append(lookups, [by |-> c, get_at |-> now, fetched |-> 0,
                                           object |-> cache[CacheKey],
                                           expiry |-> cache_expiry[CacheKey]])
            /\ callers' = [callers EXCEPT ![c].at = "idle"]
            /\ UNCHANGED <<cache, cache_expiry>>
    /\ UNCHANGED <<now, fetch_log>>
    /\ UNCHANGED engineVars
    /\ UNCHANGED runVars
    /\ UNCHANGED strategyVars
    /\ UNCHANGED callVars

\* self.repository.get_obr_master_data(): a new list object, named by the
\* number of the fetch
FetchMaster(c) ==
    /\ callers[c].at = "fetch"
    /\ fetch_log' = Append(fetch_log, [by |-> c, missed_at |-> callers[c].get_at,
                                       at |-> now])
    /\ callers' = [callers EXCEPT ![c].at = "set", ![c].fetched = @ + 1]
    /\ UNCHANGED <<cache, cache_expiry, now, lookups>>
    /\ UNCHANGED engineVars
    /\ UNCHANGED runVars
    /\ UNCHANGED strategyVars
    /\ UNCHANGED callVars

\* cache_manager.set(cache_key, master_data, ttl_seconds), under the lock,
\* and the return of master_data
CacheSet(c) ==
    /\ callers[c].at = "set"
    /\ LET object == CHOOSE k \in 1..Len(fetch_log) :
                        /\ fetch_log[k].by = c
                        /\ \A j \in (k + 1)..Len(fetch_log) : fetch_log[j].by # c
       IN  /\ cache' = (CacheKey :> object)
           /\ cache_expiry' = (CacheKey :> now + TtlTicks)
           /\ lookups' = Append(lookups, [by |-> c, get_at |-> callers[c].get_at,
                                          fetched |-> callers[c].fetched,
                                          object |-> object,
                                          expiry |-> now + TtlTicks])
    /\ callers' = [callers EXCEPT ![c].at = "idle"]
    /\ UNCHANGED <<now, fetch_log>>
    /\ UNCHANGED engineVars
    /\ UNCHANGED runVars
    /\ UNCHANGED strategyVars
    /\ UNCHANGED callVars

\* Time passes.
Tick ==
    /\ now < MaxTime
    /\ now' = now + 1
    /\ UNCHANGED <<cache, cache_expiry, callers, fetch_log, lookups>>
    /\ UNCHANGED engineVars
    /\ UNCHANGED runVars
    /\ UNCHANGED strategyVars
    /\ UNCHANGED callVars

NextCache ==
    \/ \E c \in Callers : CallGetter(c) \/ CacheGet(c) \/ FetchMaster(c) \/ CacheSet(c)
    \/ Tick

NextCacheAlone ==
    \/ \E c \in Callers : CallGetterAlone(c) \/ CacheGet(c) \/ FetchMaster(c) \/ CacheSet(c)
    \/ Tick

\* Concurrent runs, one thread each
SpecCache == InitCache /\ [][NextCache]_vars

\* Runs that follow one another
SpecCacheAlone == InitCache /\ [][NextCacheAlone]_vars

\* The lookup that stored the object of fetch number k, if it has completed
StoredBy(k) == {l \in 1..Len(lookups) : lookups[l].object = k /\ lookups[l].fetched = 1}

\* C6: with concurrent callers the source is fetched once per expiry window: a
\* fetch is made only by a caller that found the cache empty or expired after
\* the entry stored by the fetch before it had run out, so no two fetches
\* belong to one window.
C6_OneFetchPerWindow ==
    \A j \in 2..Len(fetch_log) :
        \E l \in StoredBy(j - 1) : fetch_log[j].missed_at > lookups[l].expiry

\* C7: when the lookups follow one another, a lookup made before the entry
\* returned by the previous lookup runs out returns the same list object and
\* fetches nothing, so the two make one fetch when the first filled the cache;
\* a lookup made after it has run out makes exactly one new fetch; the first
\* lookup of all makes exactly one fetch.
C7_SequentialLookups ==
    /\ Len(lookups) >= 1 => lookups[1].fetched = 1
    /\ \A k \in 2..Len(lookups) :
        LET a == lookups[k - 1]
            b == lookups[k]
        IN  /\ b.get_at < a.expiry =>
                /\ b.object = a.object
                /\ b.fetched = 0
                /\ a.fetched = 1 => a.fetched + b.fetched = 1
            /\ b.get_at > a.expiry =>
                /\ b.fetched = 1
                /\ b.object # a.object
    /\ Len(fetch_log) =
         Cardinality({l \in 1..Len(lookups) : lookups[l].fetched = 1})
         + Cardinality({c \in Callers : callers[c].at = "set"})

\* Three lookups one after the other: the first fills the cache, the second
\* comes within the window and gets the same object, the third comes after
\* the window and fetches again.
C7_Witness ==
    /\ Len(lookups) = 3
    /\ lookups[1].fetched = 1
    /\ lookups[2].get_at < lookups[1].expiry
    /\ lookups[2].object = lookups[1].object /\ lookups[2].fetched = 0
    /\ lookups[3].get_at > lookups[2].expiry
    /\ lookups[3].fetched = 1
    /\ Len(fetch_log) = 2

(***************************************************************************)
(* The vendor registry                                                     *)
(***************************************************************************)
\* VENDOR_REGISTRY, in the order of its keys (a dict keeps insertion order)
VENDOR_REGISTRY == <<
    [key |-> "belgacom",
     display_name |-> <<"B","e","l","g","a","c","o","m"," ","P","l","a","t","i","n","u","m">>,
     keywords |-> << <<"B","E","L","G","A","C","O","M">>,
                   <<"B","E","L","G","A","C","O","M"," ","P","L","A","T","I","N","U","M">> >>,
     file_requirement |-> [type |-> "single"],
     process_method_name |-> "process_belgacom_file",
     comparison_strategy |-> "belgacom"],
    [key |-> "sunrise",
     display_name |-> <<"S","u","n","r","i","s","e">>,
     keywords |-> << <<"S","U","N","R","I","S","E">> >>,
     file_requirement |-> [type |-> "single"],
     process_method_name |-> "process_sunrise_file",
     comparison_strategy |-> "sunrise"],
    [key |-> "orange_france_platinum",
     display_name |-> <<"O","r","a","n","g","e"," ","F","r","a","n","c","e"," ","P","l","a","t","i","n","u","m">>,
     keywords |-> << <<"O","R","A","N","G","E"," ","F","R","A","N","C","E"," ","P","L","A","T","I","N","U","M">>,
                   <<"O","R","A","N","G","E"," ","P","L","A","T","I","N","U","M">> >>,
     file_requirement |-> [type |-> "single"],
     process_method_name |-> "process_orange_france_platinum_file",
     comparison_strategy |-> "sunrise"],
    [key |-> "orange_france_win",
     display_name |-> <<"O","r","a","n","g","e"," ","F","r","a","n","c","e"," ","W","i","n">>,
     keywords |-> << <<"O","R","A","N","G","E"," ","F","R","A","N","C","E"," ","W","I","N">>,
                   <<"O","R","A","N","G","E"," ","F","R","A","N","C","E"," ","W","I","N"," ","A","S">>,
                   <<"O","R","A","N","G","E"," ","W","I","N">> >>,
     file_requirement |-> [type |-> "single"],
     process_method_name |-> "process_orange_france_win_file",
     comparison_strategy |-> "sunrise"],
    [key |-> "ibasis",
     display_name |-> <<"I","b","a","s","i","s"," ","G","l","o","b","a","l"," ","I","n","c"," ","P","r","e","m","i","u","m">>,
     keywords |-> << <<"I","B","A","S","I","S">>,
                   <<"I","B","A","S","I","S"," ","G","L","O","B","A","L">>,
                   <<"I","B","A","S","I","S"," ","P","R","E","M","I","U","M">> >>,
     file_requirement |-> [type |-> "single"],
     process_method_name |-> "process_ibasis_file",
     comparison_strategy |-> "sunrise"],
    [key |-> "hgc",
     display_name |-> <<"H","G","C"," ","P","r","e","m","i","u","m">>,
     keywords |-> << <<"H","G","C">>,
                   <<"H","G","C"," ","P","R","E","M","I","U","M">> >>,
     file_requirement |-> [type |-> "single"],
     process_method_name |-> "process_hgc_file",
     comparison_strategy |-> "sunrise"],
    [key |-> "oteglobe",
     display_name |-> <<"O","t","e","g","l","o","b","e">>,
     keywords |-> << <<"O","T","E","G","L","O","B","E">>,
                   <<"O","T","E"," ","G","L","O","B","E">> >>,
     file_requirement |-> [type |-> "single"],
     process_method_name |-> "process_oteglobe_file",
     comparison_strategy |-> "oteglobe"],
    [key |-> "arelion",
     display_name |-> <<"A","r","e","l","i","o","n">>,
     keywords |-> << <<"A","R","E","L","I","O","N">> >>,
     file_requirement |-> [type |-> "single"],
     process_method_name |-> "process_arelion_file",
     comparison_strategy |-> "arelion"],
    [key |-> "deutsche",
     display_name |-> <<"D","e","u","t","s","c","h","e"," ","T","e","l","e","c","o","m">>,
     keywords |-> << <<"D","E","U","T","S","C","H","E">>,
                   <<"D","E","U","T","S","C","H","E"," ","T","E","L","E","C","O","M">>,
                   <<"D","T">> >>,
     file_requirement |-> [type |-> "single"],
     process_method_name |-> "process_deutsche_file",
     comparison_strategy |-> "oteglobe"],
    [key |-> "orange_telecom",
     display_name |-> <<"O","r","a","n","g","e"," ","T","e","l","e","c","o","m">>,
     keywords |-> << <<"O","R","A","N","G","E"," ","T","E","L","E","C","O","M">>,
                   <<"O","R","A","N","G","E"," ","T","E","L","E","C","O","M","S">> >>,
     file_requirement |-> [type |-> "single"],
     process_method_name |-> "process_orange_telecom_file",
     comparison_strategy |-> "oteglobe"],
    [key |-> "apelby",
     display_name |-> <<"A","p","e","l","b","y">>,
     keywords |-> << <<"A","P","E","L","B","Y">> >>,
     file_requirement |-> [type |-> "single"],
     process_method_name |-> "process_apelby_file",
     comparison_strategy |-> "apelby"],
    [key |-> "phonetic",
     display_name |-> <<"P","h","o","n","e","t","i","c"," ","L","i","m","i","t","e","d">>,
     keywords |-> << <<"P","H","O","N","E","T","I","C">>,
                   <<"P","H","O","N","E","T","I","C"," ","L","I","M","I","T","E","D">> >>,
     file_requirement |-> [type |-> "single"],
     process_method_name |-> "process_phonetic_file",
     comparison_strategy |-> "apelby"],
    [key |-> "qxtel",
     display_name |-> <<"Q","x","t","e","l">>,
     keywords |-> << <<"Q","X","T","E","L">>,
                   <<"Q","X"," ","T","E","L">> >>,
     file_requirement |-> [type |-> "multiple"],
     process_method_name |-> "process_qxtel_file",
     comparison_strategy |-> "oteglobe"]
>>

\* A variant of the lookup below that compares the name as it was typed.
FindVendorAsTyped(vendor_name) ==
    IF vendor_name = <<>> THEN <<>>
    ELSE LET vendor_upper == Strip(vendor_name)
             exact == SelectSeq(VENDOR_REGISTRY, LAMBDA config :
                          Upper(config.display_name) = vendor_upper)
             by_keyword == SelectSeq(VENDOR_REGISTRY, LAMBDA config :
                          \E k \in 1..Len(config.keywords) :
                              Contains(vendor_upper, config.keywords[k]))
         IN  IF exact # <<>> THEN <<Head(exact)>>
             ELSE IF by_keyword # <<>> THEN <<Head(by_keyword)>>
             ELSE <<>>

\* find_vendor_by_name(vendor_name): <<>> for None, else the one config found
FindVendorByName(vendor_name) ==
    IF vendor_name = <<>> THEN <<>>
    ELSE LET vendor_upper == Strip(Upper(vendor_name))
             exact == SelectSeq(VENDOR_REGISTRY, LAMBDA config :
                          Upper(config.display_name) = vendor_upper)
             by_keyword == SelectSeq(VENDOR_REGISTRY, LAMBDA config :
                          \E k \in 1..Len(config.keywords) :
                              Contains(vendor_upper, config.keywords[k]))
         IN  IF exact # <<>> THEN <<Head(exact)>>
             ELSE IF by_keyword # <<>> THEN <<Head(by_keyword)>>
             ELSE <<>>

(***************************************************************************)
(* The background runs: one thread per accepted upload                     *)
(***************************************************************************)
MaxRuns == 2       \* uploads accepted in all

Runs == 1..MaxRuns
RunVendors == {"Belgacom Platinum", "Oteglobe"}

\* What the uploaded workbook holds: sheets with rows, sheets without rows,
\* or bytes that are no workbook at all.
Workbooks == {"rows", "empty", "corrupt"}

\* datetime.now().strftime("%m_%d_%Y"): the runs observed are of one day
Today == "11_01_2026"

\* file_name = f"{vendor_name}_rates.xlsx", under FileManager.temp_dir
TempFileName(vendor_name) == <<vendor_name, "_rates.xlsx">>

\* file_name = f"{vendor_name}-{timestamp}.csv", under FileManager.temp_dir
CsvFileName(vendor_name, timestamp) == <<vendor_name, "-", timestamp, ".csv">>

\* The sheets a process method reads from the saved workbook, one
\* excel_service.read_* call each
SheetsRead(vendor_name) == IF vendor_name = "Oteglobe" THEN 3 ELSE 2

NoRun ==
    [at |-> "none", vendor |-> "", workbook |-> "", upload |-> FALSE, response |-> "",
     service |-> FALSE, file_path |-> <<>>, sheets |-> <<>>,
     csv_file_path |-> <<>>, notes |-> <<>>]

InitRuns ==
    /\ EngineIdle
    /\ CacheIdle
    /\ runs = [r \in Runs |-> NoRun]
    /\ temp_dir = <<>>
    /\ access_log = {}
    /\ StrategyIdle
    /\ CallIdle

\* An access to a file of temp_dir: the run that makes it and the run whose
\* save or CSV generation wrote the file
Access(op, r, name) ==
    IF name \in DOMAIN temp_dir
    THEN {[op |-> op, by |-> r, of |-> temp_dir[name].by]}
    ELSE {}

\* path.unlink() when path.exists()
Unlinked(name) == [n \in DOMAIN temp_dir \ {name} |-> temp_dir[n]]

\* open(file_path, 'wb') / open(file_path, 'w'): the file is created or
\* truncated, and written
Written(name, file) == [n \in DOMAIN temp_dir \cup {name} |->
                            IF n = name THEN file ELSE temp_dir[n]]

\* The endpoint accepts an upload: the vendor is registered, the content is
\* not empty; the content goes to a file of its own (mkstemp), the thread is
\* started and the answer is status "processing".
\* The vendor names requests carry: the vendors above, a vendor of three
\* files, a name the registry does not know and no name.
RequestVendors == RunVendors \cup {"Qxtel", "Nobody", ""}

\* request.vendor_name, character by character
Typed(vendor_name) ==
    CASE vendor_name = "Belgacom Platinum" -> <<"B","e","l","g","a","c","o","m"," ","P","l","a","t","i","n","u","m">>
      [] vendor_name = "Oteglobe" -> <<"O","t","e","g","l","o","b","e">>
      [] vendor_name = "Qxtel" -> <<"Q","x","t","e","l">>
      [] vendor_name = "Nobody" -> <<"N","o","b","o","d","y">>
      [] OTHER -> <<>>

\* A variant of the validation below without the check of file_requirement.
RequestErrorUnknownOnly(vendor_name) ==
    LET vendor_config == FindVendorByName(Typed(vendor_name))
    IN  IF vendor_name = "" THEN "400"
        ELSE IF vendor_config = <<>> THEN "400"
        ELSE IF vendor_config[1].process_method_name = "" THEN "500"
        ELSE ""

\* The HTTPException file_obr_comparison raises before it writes the upload,
\* "" when it raises none (file_content is never empty here).
RequestError(vendor_name) ==
    LET vendor_config == FindVendorByName(Typed(vendor_name))
    IN  IF vendor_name = "" THEN "400"
        ELSE IF vendor_config = <<>> THEN "400"
        ELSE IF vendor_config[1].file_requirement.type = "multiple" THEN "400"
        ELSE IF vendor_config[1].process_method_name = "" THEN "500"
        ELSE ""

\* POST /fileObrComparison: the request is answered with an error, or the
\* upload is written by mkstemp and the daemon thread is started.
FileObrComparison(r, vendor_name, workbook) ==
    /\ runs[r].at = "none"
    /\ runs' = [runs EXCEPT ![r] =
                  IF RequestError(vendor_name) # ""
                  THEN [NoRun EXCEPT !.at = "rejected",
                                     !.vendor = vendor_name,
                                     !.workbook = workbook,
                                     !.response = RequestError(vendor_name)]
                  ELSE [NoRun EXCEPT !.at = "thread",
                                     !.vendor = vendor_name,
                                     !.workbook = workbook,
                                     !.upload = TRUE,
                                     !.response = "processing"]]
    /\ UNCHANGED <<temp_dir, access_log>>
    /\ UNCHANGED engineVars
    /\ UNCHANGED cacheVars
    /\ UNCHANGED strategyVars
    /\ UNCHANGED callVars

\* The thread starts: the session is opened, the upload is read back and
\* OBRService(db) is constructed (FileManager creates temp_dir and raises
\* when it cannot); an exception here is logged by the thread and nothing
\* more.
ProcessVendorFileBackground(r) ==
    /\ runs[r].at = "thread"
    /\ \E constructed \in BOOLEAN :
        runs' = [runs EXCEPT ![r].service = constructed,
                             ![r].at = IF constructed THEN "save" ELSE "finally"]
    /\ UNCHANGED <<temp_dir, access_log>>
    /\ UNCHANGED engineVars
    /\ UNCHANGED cacheVars
    /\ UNCHANGED strategyVars
    /\ UNCHANGED callVars

\* file_path = self.file_manager.save_temp_file(file_content, file_name)
SaveTempFile(r) ==
    /\ runs[r].at = "save"
    /\ LET name == TempFileName(runs[r].vendor)
       IN  /\ access_log' = access_log \cup Access("overwrite", r, name)
           /\ temp_dir' = Written(name, [by |-> r, holds |-> runs[r].workbook])
           /\ runs' = [runs EXCEPT ![r].file_path = name, ![r].at = "read"]
    /\ UNCHANGED engineVars
    /\ UNCHANGED cacheVars
    /\ UNCHANGED strategyVars
    /\ UNCHANGED callVars

\* One excel_service.read_*(file_path): the file is opened by name; a file
\* that is not there, or is no workbook, raises and the process method's
\* except clause is entered.  After the last sheet Belgacom validates and
\* Oteglobe goes on to compare.
ReadSheet(r) ==
    /\ runs[r].at = "read"
    /\ LET name == runs[r].file_path
       IN  /\ access_log' = access_log \cup Access("read", r, name)
           /\ IF name \notin DOMAIN temp_dir
              THEN runs' = [runs EXCEPT ![r].at = "except"]
              ELSE IF temp_dir[name].holds = "corrupt"
              THEN runs' = [runs EXCEPT ![r].at = "except"]
              ELSE runs' = [runs EXCEPT
                       ![r].sheets = Append(@, temp_dir[name]),
                       ![r].at = IF Len(runs[r].sheets) + 1 < SheetsRead(runs[r].vendor)
                                 THEN "read"
                                 ELSE IF runs[r].vendor = "Oteglobe"
                                 THEN "csv" ELSE "validate"]
    /\ UNCHANGED temp_dir
    /\ UNCHANGED engineVars
    /\ UNCHANGED cacheVars
    /\ UNCHANGED strategyVars
    /\ UNCHANGED callVars

\* A call of the reporting collaborator (EmailService.send_obr_*_email); the
\* calls catch their own exceptions and return.
Notified(r, note) == [runs EXCEPT ![r].notes = Append(@, note)]

\* Step 4 of process_belgacom_file: with a sheet (or the master data)
\* empty, send_obr_failure_email and return False; the master data of the
\* runs observed is not empty.
ValidateData(r) ==
    /\ runs[r].at = "validate"
    /\ IF \E k \in 1..Len(runs[r].sheets) : runs[r].sheets[k].holds = "empty"
       THEN runs' = [Notified(r, [type |-> "failure", attachment |-> <<>>])
                        EXCEPT ![r].at = "delete_temp"]
       ELSE runs' = [runs EXCEPT ![r].at = "csv"]
    /\ UNCHANGED <<temp_dir, access_log>>
    /\ UNCHANGED engineVars
    /\ UNCHANGED cacheVars
    /\ UNCHANGED strategyVars
    /\ UNCHANGED callVars

\* The comparison and OBRService._generate_csv_file: the CSV is written
\* under its name from the rows that were read.
GenerateRunCsvFile(r) ==
    /\ runs[r].at = "csv"
    /\ LET name == CsvFileName(runs[r].vendor, Today)
       IN  /\ access_log' = access_log \cup Access("overwrite", r, name)
           /\ temp_dir' = Written(name, [by |-> r,
                               holds |-> [k \in 1..Len(runs[r].sheets) |->
                                              runs[r].sheets[k].by]])
           /\ runs' = [runs EXCEPT ![r].csv_file_path = name, ![r].at = "success"]
    /\ UNCHANGED engineVars
    /\ UNCHANGED cacheVars
    /\ UNCHANGED strategyVars
    /\ UNCHANGED callVars

\* send_obr_success_email: the CSV is opened by name and attached; when it
\* is not there the exception is caught inside the call.
SendObrSuccessEmail(r) ==
    /\ runs[r].at = "success"
    /\ LET name == runs[r].csv_file_path
       IN  /\ access_log' = access_log \cup Access("read", r, name)
           /\ runs' = [Notified(r, [type |-> "success",
                                    attachment |-> IF name \in DOMAIN temp_dir
                                                   THEN <<temp_dir[name]>>
                                                   ELSE <<>>])
                          EXCEPT ![r].at = "delete_temp"]
    /\ UNCHANGED temp_dir
    /\ UNCHANGED engineVars
    /\ UNCHANGED cacheVars
    /\ UNCHANGED strategyVars
    /\ UNCHANGED callVars

\* The except clause of the process method: send_obr_error_email.  The
\* finally clause of process_belgacom_file follows; process_oteglobe_file
\* has none.
SendObrErrorEmail(r) ==
    /\ runs[r].at = "except"
    /\ runs' = [Notified(r, [type |-> "error", attachment |-> <<>>])
                   EXCEPT ![r].at = IF runs[r].vendor = "Oteglobe"
                                    THEN "finally" ELSE "delete_temp"]
    /\ UNCHANGED <<temp_dir, access_log>>
    /\ UNCHANGED engineVars
    /\ UNCHANGED cacheVars
    /\ UNCHANGED strategyVars
    /\ UNCHANGED callVars

\* self.file_manager.delete_temp_file(file_path): Belgacom in its finally
\* clause, Oteglobe after the success email, before it deletes the CSV too.
DeleteTempFile(r) ==
    /\ runs[r].at = "delete_temp"
    /\ access_log' = access_log \cup Access("delete", r, runs[r].file_path)
    /\ temp_dir' = Unlinked(runs[r].file_path)
    /\ runs' = [runs EXCEPT ![r].at = IF runs[r].vendor = "Oteglobe"
                                      THEN "delete_csv" ELSE "finally"]
    /\ UNCHANGED engineVars
    /\ UNCHANGED cacheVars
    /\ UNCHANGED strategyVars
    /\ UNCHANGED callVars

\* process_oteglobe_file: self.file_manager.delete_temp_file(csv_file_path)
DeleteCsvFile(r) ==
    /\ runs[r].at = "delete_csv"
    /\ access_log' = access_log \cup Access("delete", r, runs[r].csv_file_path)
    /\ temp_dir' = Unlinked(runs[r].csv_file_path)
    /\ runs' = [runs EXCEPT ![r].at = "finally"]
    /\ UNCHANGED engineVars
    /\ UNCHANGED cacheVars
    /\ UNCHANGED strategyVars
    /\ UNCHANGED callVars

\* The finally clause of the thread: db.close() and the upload's own file
\* is removed.
ThreadFinally(r) ==
    /\ runs[r].at = "finally"
    /\ runs' = [runs EXCEPT ![r].upload = FALSE, ![r].at = "done"]
    /\ UNCHANGED <<temp_dir, access_log>>
    /\ UNCHANGED engineVars
    /\ UNCHANGED cacheVars
    /\ UNCHANGED strategyVars
    /\ UNCHANGED callVars

\* The steps of the thread of upload r
ThreadStep(r) ==
    \/ ProcessVendorFileBackground(r)
    \/ SaveTempFile(r)
    \/ ReadSheet(r)
    \/ ValidateData(r)
    \/ GenerateRunCsvFile(r)
    \/ SendObrSuccessEmail(r)
    \/ SendObrErrorEmail(r)
    \/ DeleteTempFile(r)
    \/ DeleteCsvFile(r)
    \/ ThreadFinally(r)

NextRuns ==
    \/ \E r \in Runs, vendor_name \in RequestVendors, workbook \in Workbooks :
          FileObrComparison(r, vendor_name, workbook)
    \/ \E r \in Runs : ThreadStep(r)

\* Uploads arrive at any time; their threads run concurrently.
SpecRuns == InitRuns /\ [][NextRuns]_vars

\* The same, each started thread being scheduled until it ends.
SpecRunsFair == SpecRuns /\ \A r \in Runs : WF_vars(ThreadStep(r))

\* C9: concurrent runs share nothing but the master-data cache: no run
\* reads, overwrites or deletes a temporary input file or an output CSV file
\* that another run wrote, two uploads of one vendor name included.
C9_NoForeignFileAccess == \A a \in access_log : a.of = a.by

\* The files are kept apart when the vendor names of the uploads differ.
C9_DistinctVendorsApart ==
    \A a \in access_log : a.of # a.by => runs[a.of].vendor = runs[a.by].vendor

\* C10: every accepted upload eventually ends, the reporting collaborator
\* having been called exactly once for it (success with the output file,
\* data-incomplete failure, or error with details), on every path of the
\* thread.
C10_EndsWithOneNotification ==
    \A r \in Runs :
        (runs[r].at = "thread") ~> (runs[r].at = "done" /\ Len(runs[r].notes) = 1)

\* Every accepted upload's thread ends.
C10_ThreadEnds == \A r \in Runs : (runs[r].at = "thread") ~> (runs[r].at = "done")

\* A thread that came to call the process method has called the reporting
\* collaborator exactly once when it ends, and not more than once before.
C10_ProcessMethodNotifiesOnce ==
    \A r \in Runs :
        /\ Len(runs[r].notes) <= 1
        /\ runs[r].at = "done" /\ runs[r].service => Len(runs[r].notes) = 1

\* A run that read all its sheets, one of them without rows
ReadEmptySheet(r) ==
    /\ Len(runs[r].sheets) = SheetsRead(runs[r].vendor)
    /\ \E k \in 1..Len(runs[r].sheets) : runs[r].sheets[k].holds = "empty"

\* C11: a run one of whose required row sets is empty fails: it writes no
\* CSV, sends no success notification and sends the data-incomplete failure
\* notification; for every vendor's processing method.
C11_EmptyInputFails ==
    \A r \in Runs :
        (ReadEmptySheet(r) /\ runs[r].at = "done") =>
            /\ runs[r].csv_file_path = <<>>
            /\ Len(runs[r].notes) = 1
            /\ runs[r].notes[1].type = "failure"

\* The same for process_belgacom_file alone, which validates its row sets.
C11_BelgacomValidates ==
    \A r \in Runs :
        (ReadEmptySheet(r) /\ runs[r].at = "done" /\ runs[r].vendor = "Belgacom Platinum") =>
            /\ runs[r].csv_file_path = <<>>
            /\ Len(runs[r].notes) = 1
            /\ runs[r].notes[1].type = "failure"

\* C12: no comparison raises because of a data-dependent match condition:
\* for every non-empty list of well-formed vendor rows and master rows each
\* comparison returns an output list.
C12_NeverRaises == pc # "raised"

\* The comparisons other than Arelion's return on every input.
C12_OthersReturn == fn # "arelion" => pc # "raised"

(***************************************************************************)
(* One strategy instance called again                                      *)
(***************************************************************************)
\* COMPARISON_STRATEGIES holds one instance of each strategy class for the
\* life of the process: every run of a vendor calls compare on the same object.
MaxCalls == 3      \* calls of compare on the instance

Codes44And447 == <<"4","4",","," ","4","4","7">>
UKZone == <<"U","K"," ","Z","o","n","e">>

ApelbyPrice(code, destination, rate) ==
    [code |-> code, destination |-> destination, rate |-> rate]
ApelbyNewPrice(origin, destination, dial_code, rate) ==
    [origin |-> origin, destination |-> destination, dial_code |-> dial_code, rate |-> rate]
ApelbyOrigin(origin, origin_code) == [origin |-> origin, origin_code |-> origin_code]

ApelbyPrices == { ApelbyPrice(Codes44And447, UK, 3), ApelbyPrice(Code44, UK, 5),
                  ApelbyPrice(Code39, Italy, 4) }
ApelbyNewPrices == { ApelbyNewPrice(UKZone, UK, Code44, 7),
                     ApelbyNewPrice(UKZone, UK, Code447, 8) }
ApelbyOrigins == { ApelbyOrigin(UKZone, <<"1">>), ApelbyOrigin(UKZone, <<"2">>) }
ApelbyMasters == { Master(<<"A","P","E","L","B","Y">>, <<"1">>, Code44, UK, RouteR1, UK),
                   Master(<<"A","P","E","L","B","Y">>, <<"2">>, Code39, Italy, RouteR2, Italy) }

ApelbyInputs ==
    [price_list : Lists(ApelbyPrices, MaxPrice),
     second : Lists(ApelbyNewPrices, MaxSecond),
     third : Lists(ApelbyOrigins, MaxThird),
     master : MasterLists(ApelbyMasters, MaxMaster)]

\* The strategies that keep a set of the codes emitted
UniqueCodeFns == {"two_sheet_generic", "apelby_strategy"}

\* strategy.compare(vendor_data, obr_master, config)
StrategyRun(f, i) ==
    IF f = "apelby_strategy" THEN ApelbyRun(i.price_list, i.second, i.third, i.master)
    ELSE TwoSheetGenericRun(i.price_list, i.second,
                            FilteredMaster(i.master, OrangeFrancePlatinumUpper))

InitTwice ==
    /\ fn \in UniqueCodeFns
    /\ inp \in (IF fn = "apelby_strategy" THEN ApelbyInputs ELSE InputsOf(fn))
    /\ csv_data = <<>>
    /\ written = <<>>
    /\ pc = "start"
    /\ CacheIdle
    /\ RunsIdle
    /\ StrategyIdle
    /\ CallIdle

\* One call of compare on the instance of COMPARISON_STRATEGIES, with the
\* same list objects: compare assigns to none of their rows.
StrategyCompare ==
    /\ Len(returned) < MaxCalls
    /\ unique_codes' = StrategyRun(fn, inp).unique_codes
    /\ returned' = Append(returned, StrategyRun(fn, inp).out)
    /\ UNCHANGED engineVars
    /\ UNCHANGED cacheVars
    /\ UNCHANGED runVars
    /\ UNCHANGED callVars

NextTwice == StrategyCompare

SpecTwice == InitTwice /\ [][NextTwice]_vars

C13_InputsUnmodified == [][inp' = inp]_vars

MaxPieces == 3     \* pieces of one dial-code field

\* What stands between two separators of a dial-code field
Pieces == { <<>>, <<" ">>, <<"3","1">>, <<"3","3">>, <<"3","5">>,
            <<" ","3","1">>, <<"3","3"," ">>, <<"3"," ","5">> }
Separators == {";", "-"}

\* The field made of the pieces ps with the separators ss between them
RECURSIVE Joined(_,_)
Joined(ps, ss) ==
    IF Len(ps) = 1 THEN ps[1]
    ELSE ps[1] \o <<ss[1]>> \o Joined(Tail(ps), Tail(ss))

\* The dial-code fields of at most MaxPieces pieces, each with its pieces
DialCodeFields ==
    UNION { [pieces : [1..k -> Pieces], seps : [1..(k - 1) -> Separators]] :
            k \in 1..MaxPieces }

InitParse ==
    /\ EngineIdle
    /\ CacheIdle
    /\ RunsIdle
    /\ StrategyIdle
    /\ \E field \in DialCodeFields :
          call = [name |-> "_parse_and_split_dial_codes",
                  arg |-> Joined(field.pieces, field.seps),
                  pieces |-> field.pieces]
    /\ result = <<>>

\* OBRService._parse_and_split_dial_codes(dial_codes_str)
ParseAndSplit ==
    /\ call # <<>>
    /\ call.name = "_parse_and_split_dial_codes"
    /\ result = <<>>
    /\ result' = <<ParseAndSplitDialCodes(call.arg)>>
    /\ UNCHANGED call
    /\ UNCHANGED engineVars
    /\ UNCHANGED cacheVars
    /\ UNCHANGED runVars
    /\ UNCHANGED strategyVars

NextParse == ParseAndSplit

SpecParse == InitParse /\ [][NextParse]_vars

Field31_33_35 == <<"3","1",";","3","3","-","3","5">>
Field31_35 == <<"3","1","-","3","5">>

\* C14: dial-code parsing returns, in order, the trimmed non-empty pieces
\* between the ';' and '-' of its input: no token is empty, holds ';' or '-'
\* or begins or ends with a blank, and a range gives its two ends only
\* ('31;33-35' gives 31, 33, 35 and '31-35' gives 31, 35).
C14_TrimmedPiecesInOrder ==
    (call # <<>> /\ call.name = "_parse_and_split_dial_codes" /\ result # <<>>) =>
        LET tokens == result[1]
        IN  /\ tokens = Map(Strip, SelectSeq(call.pieces, LAMBDA p : Strip(p) # <<>>))
            /\ \A k \in 1..Len(tokens) :
                  /\ tokens[k] # <<>>
                  /\ \A j \in 1..Len(tokens[k]) : tokens[k][j] \notin {";", "-"}
                  /\ Head(tokens[k]) # " "
                  /\ tokens[k][Len(tokens[k])] # " "
            /\ call.arg = Field31_33_35 =>
                  tokens = << <<"3","1">>, <<"3","3">>, <<"3","5">> >>
            /\ call.arg = Field31_35 => tokens = << <<"3","1">>, <<"3","5">> >>

\* '31;33-35' has been parsed.
C14_Witness ==
    /\ call # <<>>
    /\ call.name = "_parse_and_split_dial_codes"
    /\ call.arg = Field31_33_35
    /\ result # <<>>
    /\ Len(result[1]) = 3

(***************************************************************************)
(* find_vendor_by_name on its own                                          *)
(***************************************************************************)
\* The names typed: a known or unknown name, as typed, in capitals or in
\* small letters, alone or with blanks or other words around it.
NameCores == {
    <<>>,
    <<"B","e","l","g","a","c","o","m"," ","P","l","a","t","i","n","u","m">>,
    <<"s","u","n","r","i","s","e">>,
    <<"O","r","a","n","g","e"," ","F","r","a","n","c","e"," ","W","i","n">>,
    <<"o","r","a","n","g","e"," ","f","r","a","n","c","e"," ","w","i","n"," ","a","s">>,
    <<"O","r","a","n","g","e"," ","P","l","a","t","i","n","u","m">>,
    <<"o","r","a","n","g","e">>,
    <<"H","G","C"," ","S","u","n","r","i","s","e">>,
    <<"D","e","u","t","s","c","h","e"," ","T","e","l","e","c","o","m">>,
    <<"d","t">>,
    <<"P","h","o","n","e","t","i","c"," ","L","i","m","i","t","e","d">>,
    <<"Q","x"," ","T","e","l">>,
    <<"U","n","k","n","o","w","n">>,
    <<"O","r","a","n","g","e"," ","T","e","l","e","c","o","m","s">>,
    <<"I","B","A","S","I","S">> }
NameBefore == { <<>>, <<" ">>, <<"m","y"," ">> }
NameAfter == { <<>>, <<" ">>, <<" ","l","t","d">> }
VendorNames ==
    { b \o c \o a : b \in NameBefore, c \in NameCores \cup {Upper(n) : n \in NameCores}
                                                      \cup {Lower(n) : n \in NameCores},
                    a \in NameAfter }

InitFind ==
    /\ EngineIdle
    /\ CacheIdle
    /\ RunsIdle
    /\ StrategyIdle
    /\ \E vendor_name \in VendorNames :
          call = [name |-> "find_vendor_by_name", arg |-> vendor_name]
    /\ result = <<>>

\* find_vendor_by_name(vendor_name)
FindVendor ==
    /\ call # <<>>
    /\ call.name = "find_vendor_by_name"
    /\ result = <<>>
    /\ result' = <<FindVendorByName(call.arg)>>
    /\ UNCHANGED call
    /\ UNCHANGED engineVars
    /\ UNCHANGED cacheVars
    /\ UNCHANGED runVars
    /\ UNCHANGED strategyVars

NextFind == FindVendor

SpecFind == InitFind /\ [][NextFind]_vars

\* The registry positions whose display_name is the trimmed name but for case
ExactAt(vendor_name) ==
    { i \in 1..Len(VENDOR_REGISTRY) :
        Upper(VENDOR_REGISTRY[i].display_name) = Upper(Strip(vendor_name)) }

\* The registry positions one of whose keywords occurs in the name in capitals
KeywordAt(vendor_name) ==
    { i \in 1..Len(VENDOR_REGISTRY) :
        \E k \in 1..Len(VENDOR_REGISTRY[i].keywords) :
            Contains(Upper(vendor_name), VENDOR_REGISTRY[i].keywords[k]) }

\* C15: find_vendor_by_name returns the entry whose display_name equals the
\* trimmed name but for case when there is one; else the first entry, in the
\* order of registration, one of whose keywords occurs in the name in capitals;
\* else, and for the empty name, None.
C15_ExactThenFirstKeyword ==
    (call # <<>> /\ call.name = "find_vendor_by_name" /\ result # <<>>) =>
        LET found == result[1]
        IN  IF ExactAt(call.arg) # {}
            THEN \E i \in ExactAt(call.arg) : found = <<VENDOR_REGISTRY[i]>>
            ELSE IF KeywordAt(call.arg) # {}
            THEN \E i \in KeywordAt(call.arg) :
                    /\ found = <<VENDOR_REGISTRY[i]>>
                    /\ \A j \in KeywordAt(call.arg) : i <= j
            ELSE found = <<>>

\* 'HGC Sunrise' in small letters has keywords of two entries: Sunrise, the
\* earlier one, was returned.
C15_Witness ==
    /\ call # <<>>
    /\ call.name = "find_vendor_by_name"
    /\ call.arg = <<"h","g","c"," ","s","u","n","r","i","s","e">>
    /\ result # <<>>
    /\ result[1] # <<>>
    /\ result[1][1].key = "sunrise"

\* No exact match, no keyword, or no name at all: None was returned.
C15_WitnessNone ==
    /\ call # <<>>
    /\ call.name = "find_vendor_by_name"
    /\ call.arg \in {<<>>, <<"m","y"," ","U","n","k","n","o","w","n">>}
    /\ result = << <<>> >>

\* The request of run r names no vendor of the registry, or one of several files.
UnknownOrMultiple(r) ==
    \/ FindVendorByName(Typed(runs[r].vendor)) = <<>>
    \/ FindVendorByName(Typed(runs[r].vendor))[1].file_requirement.type = "multiple"

\* C16: a request whose vendor name the registry does not know, or whose
\* vendor takes several files, is answered with an error before any work:
\* no upload is written, no thread runs, nothing is tried again.
C16_RejectedBeforeWork ==
    \A r \in Runs :
        (runs[r].at # "none" /\ UnknownOrMultiple(r)) =>
            /\ runs[r].at = "rejected"
            /\ runs[r].response = "400"
            /\ ~runs[r].upload
            /\ ~runs[r].service
            /\ runs[r].file_path = <<>>
            /\ runs[r].sheets = <<>>
            /\ runs[r].notes = <<>>
            /\ \A a \in access_log : a.by # r
            /\ \A name \in DOMAIN temp_dir : temp_dir[name].by # r

\* A rejected request is never taken up again.
C16_NoRetry ==
    [][\A r \in Runs : runs[r].at = "rejected" => runs'[r] = runs[r]]_vars

\* A request for an unknown vendor and one for Qxtel were rejected.
C16_Witness ==
    \E r1 \in Runs, r2 \in Runs :
        /\ runs[r1].at = "rejected" /\ runs[r1].vendor = "Nobody"
        /\ runs[r2].at = "rejected" /\ runs[r2].vendor = "Qxtel"

SpecSunrise == InitFns({"sunrise"}) /\ [][Next]_vars

\* The deduplicated list of a Sunrise run is longer than its price list.
SunriseExceeds ==
    Len(SunriseDedup(SunriseCombined(inp.price_list, inp.second, inp.master)))
        > Len(inp.price_list)

\* C17: in a Sunrise run no two output records agree on dial code, price and
\* origin label, whether or not the combined result exceeds the price list.
C17_SunriseKeysUnique ==
    (fn = "sunrise" /\ Compared) =>
        \A i \in 1..Len(csv_data) : \A j \in 1..Len(csv_data) :
            (/\ csv_data[i].country_code = csv_data[j].country_code
             /\ csv_data[i].price_min = csv_data[j].price_min
             /\ csv_data[i].origin_name = csv_data[j].origin_name) => i = j

\* A run on the path of the exceeding result returned records.
C17_Witness ==
    /\ fn = "sunrise"
    /\ Compared
    /\ SunriseExceeds
    /\ csv_data # <<>>

\* A run on the normal path whose combined list repeated a key.
C17_WitnessRepeated ==
    /\ fn = "sunrise"
    /\ Compared
    /\ ~SunriseExceeds
    /\ Len(csv_data) < Len(SunriseCombined(inp.price_list, inp.second, inp.master))

\* The records of the comparison's output that carry no origin label
EmptyLabelRecords == SelectSeq(csv_data, LAMBDA rec : rec.origin_name = <<>>)

\* C18: for Oteglobe, Arelion and Qxtel the final pass appends one record
\* without origin label per row of the price list, whether or not the row or
\* its dial code was emitted before: there are as many such records as rows.
C18_OneFallbackPerBaseRow ==
    (fn \in {"oteglobe", "arelion", "qxtel"} /\ Compared) =>
        Len(EmptyLabelRecords) = Len(inp.price_list)

\* The same for _compare_oteglobe_data and _compare_qxtel_data alone.
C18_OteglobeQxtel ==
    (fn \in {"oteglobe", "qxtel"} /\ Compared) =>
        Len(EmptyLabelRecords) = Len(inp.price_list)

(***************************************************************************)
(* Orange France: rows that share a dial code                              *)
(***************************************************************************)
\* The price rows above and two more: a second row of origin G1 and a second
\* row without origin, each with a rate of its own for codes already listed.
OrangePricesShared ==
    OrangePrices \cup
    { OrangePrice(<<"U","K"," ","T","o","p">>, <<"4","4",",","4","4","7">>, GroupG1, Date2, 9),
      OrangePrice(<<"U","K"," ","M","o","b","i","l","e">>, <<"4","4","7">>, <<>>, Date1, 3) }

OrangeSharedInputs(vendor_name_upper) ==
    [price_list : Lists(OrangePricesShared, MaxPrice),
     second : Lists(OrangeOrigins, MaxSecond),
     third : {<<>>},
     master : MasterLists(OrangeMasters(vendor_name_upper), MaxMaster)]

InitOrange ==
    /\ fn \in {"orange_france_win", "orange_france_platinum"}
    /\ inp \in OrangeSharedInputs(VendorUpperOf(fn))
    /\ csv_data = <<>>
    /\ written = <<>>
    /\ pc = "start"
    /\ CacheIdle
    /\ RunsIdle
    /\ StrategyIdle
    /\ CallIdle

SpecOrange == InitOrange /\ [][Next]_vars

\* The rows of the expanded price list that carry the dial code
SharingCode(dial_code) ==
    SelectSeq(PriceListExpanded(inp.price_list), LAMBDA p : p.dial_codes = dial_code)

\* All rows that carry the dial code have one and the same origin tag: they
\* are candidates together or not at all.
OneTag(dial_code) ==
    \A i \in 1..Len(SharingCode(dial_code)) :
        SharingCode(dial_code)[i].origin = SharingCode(dial_code)[1].origin

\* C19: Orange France: when several candidate price rows share one dial code,
\* the record emitted for that dial code carries the highest rate among them
\* (and where no row tagged with a matching origin exists, the untagged rows
\* are the candidates).
C19_HighestRateOfSharedCode ==
    (fn \in {"orange_france_win", "orange_france_platinum"} /\ Compared) =>
        \A k \in 1..Len(csv_data) :
            OneTag(csv_data[k].country_code) =>
                csv_data[k].price_min = MaxRate(SharingCode(csv_data[k].country_code))

\* The same for each of the two functions alone.
C19_WinOnly == fn = "orange_france_win" => C19_HighestRateOfSharedCode
C19_PlatinumOnly == fn = "orange_france_platinum" => C19_HighestRateOfSharedCode

\* _compare_orange_france_platinum_data: a record without origin label
\* carries the highest rate of the rows that share its dial code.
C19_PlatinumFallbackHighest ==
    (fn = "orange_france_platinum" /\ Compared) =>
        \A k \in 1..Len(csv_data) :
            csv_data[k].origin_name = <<>> =>
                csv_data[k].price_min = MaxRate(SharingCode(csv_data[k].country_code))

\* _compare_orange_france_win_data: for a master row and a matching origin
\* without a price row of that origin, every untagged row whose code begins
\* with the destiny code has its code among the routed records.
C19_WinUntaggedUsed ==
    (fn = "orange_france_win" /\ Compared) =>
        \A m \in 1..Len(inp.master) : \A o \in 1..Len(inp.second) :
            LET vendor == inp.master[m]
                origin == inp.second[o]
                matching_prices ==
                    SelectSeq(PriceListExpanded(inp.price_list), LAMBDA p :
                        StartsWith(p.dial_codes, vendor.destiny_code))
            IN  (/\ Upper(vendor.vendor) = OrangeFranceWinUpper
                 /\ origin.dialed_digit = vendor.origin_code
                 /\ \A i \in 1..Len(matching_prices) :
                        matching_prices[i].origin # origin.origin_name) =>
                    \A i \in 1..Len(matching_prices) :
                        matching_prices[i].origin = <<>> =>
                            \E k \in 1..Len(csv_data) :
                                /\ csv_data[k].country_code = matching_prices[i].dial_codes
                                /\ csv_data[k].origin_name # <<>>

SpecHgc == InitFns({"hgc"}) /\ [][Next]_vars

\* The rows of the price list that carry the dial code
HgcGroup(dial_code) == SelectSeq(inp.price_list, LAMBDA price : price.dial_code = dial_code)

\* The records without origin label that carry the dial code
HgcFallbackOf(dial_code) ==
    SelectSeq(csv_data, LAMBDA rec : rec.origin_name = <<>> /\ rec.country_code = dial_code)

\* The record carries rate, destination and date of the row.
HgcCarries(rec, price) ==
    /\ rec.price_min = price.rate
    /\ rec.destinations = price.destination
    /\ rec.start_date = price.effective_date

C20_WitnessBlank ==
    /\ fn = "hgc"
    /\ Compared
    /\ \E k \in 1..Len(inp.price_list) :
          HgcFallbackOf(inp.price_list[k].dial_code) = <<>>

\* The row has the five columns and its date column holds no time of day.
FiveFieldsDateOnly(row) ==
    /\ Len(row) = 5
    /\ \A i \in 1..Len(row[4]) : row[4][i] \notin {" ", ":"}

\* C21: every data row written has the five fields destination, dial code,
\* price, effective date and origin label, in that order, and its effective
\* date holds the date alone, without a time of day, for every vendor.
C21_FiveFieldsDateOnly ==
    pc = "written" =>
        \A k \in 1..Len(written) :
            /\ FiveFieldsDateOnly(written[k])
            /\ \E j \in 1..Len(csv_data) :
                  /\ written[k][1] = csv_data[j].destinations
                  /\ written[k][2] = csv_data[j].country_area
                  /\ written[k][5] = csv_data[j].origin_name

\* The same for the runs written by OBRService._generate_csv_file alone.
C21_GenericWriter == (fn \notin StrategyFns \cup {"hgc"}) => C21_FiveFieldsDateOnly

\* Caller c completes cache_manager.get with an entry in the cache.
GetOnEntry(c) ==
    /\ callers[c].at = "get"
    /\ callers'[c].at # "get"
    /\ CacheKey \in DOMAIN cache

\* C22: the expiry time of an entry is set when it is written and no read
\* changes it: a get up to that time returns the entry and leaves cache and
\* expiry as they are; a get after it returns nothing and removes the entry.
C22_ExpiryFixedAtWrite ==
    [][\A c \in Callers :
          GetOnEntry(c) =>
              IF now <= cache_expiry[CacheKey]
              THEN /\ callers'[c].at = "idle"
                   /\ cache' = cache
                   /\ cache_expiry' = cache_expiry
                   /\ lookups' = Append(lookups, lookups'[Len(lookups')])
                   /\ lookups'[Len(lookups')].object = cache[CacheKey]
                   /\ lookups'[Len(lookups')].fetched = 0
              ELSE /\ callers'[c].at = "fetch"
                   /\ lookups' = lookups
                   /\ CacheKey \notin DOMAIN cache'
                   /\ CacheKey \notin DOMAIN cache_expiry']_vars

\* The expiry of an entry is the time of its write plus the TTL.
C22_ExpiryIsWritePlusTtl ==
    [][(cache_expiry' # cache_expiry /\ CacheKey \in DOMAIN cache_expiry') =>
          cache_expiry'[CacheKey] = now + TtlTicks]_vars

\* An entry was returned by a get at its expiry time and removed by a later get.
C22_Witness ==
    /\ \E l \in 1..Len(lookups) :
          /\ lookups[l].fetched = 0
          /\ lookups[l].get_at = lookups[l].expiry
          /\ now > lookups[l].expiry
    /\ cache = <<>>
    /\ \E c \in Callers : callers[c].at = "fetch" /\ callers[c].get_at = now

(***************************************************************************)
(* A fetch of the master data that raises                                  *)
(***************************************************************************)
\* The lookup ended with the exception of the repository.
Raised(lookup) == "raised" \in DOMAIN lookup

\* A variant of the action below in which the failed fetch leaves an empty
\* list in the cache.
FetchRaisesStoring(c) ==
    /\ callers[c].at = "fetch"
    /\ fetch_log' = Append(fetch_log, [by |-> c, missed_at |-> callers[c].get_at,
                                       at |-> now, raised |-> TRUE])
    /\ lookups' = Append(lookups, [by |-> c, get_at |-> callers[c].get_at,
                                   fetched |-> callers[c].fetched + 1, raised |-> TRUE])
    /\ callers' = [callers EXCEPT ![c].at = "idle"]
    /\ cache' = (CacheKey :> 0)
    /\ cache_expiry' = (CacheKey :> now + TtlTicks)
    /\ UNCHANGED now
    /\ UNCHANGED engineVars
    /\ UNCHANGED runVars
    /\ UNCHANGED strategyVars
    /\ UNCHANGED callVars

\* self.repository.get_obr_master_data() raises: the repository logs and
\* re-raises, _get_obr_master_data_cached has no handler, so the call of
\* cache_manager.set is not reached and the exception leaves the getter.
FetchRaises(c) ==
    /\ callers[c].at = "fetch"
    /\ fetch_log' = Append(fetch_log, [by |-> c, missed_at |-> callers[c].get_at,
                                       at |-> now, raised |-> TRUE])
    /\ lookups' = Append(lookups, [by |-> c, get_at |-> callers[c].get_at,
                                   fetched |-> callers[c].fetched + 1, raised |-> TRUE])
    /\ callers' = [callers EXCEPT ![c].at = "idle"]
    /\ UNCHANGED <<cache, cache_expiry, now>>
    /\ UNCHANGED engineVars
    /\ UNCHANGED runVars
    /\ UNCHANGED strategyVars
    /\ UNCHANGED callVars

NextCacheFail ==
    \/ \E c \in Callers : CallGetterAlone(c) \/ CacheGet(c) \/ FetchMaster(c) \/ CacheSet(c)
                             \/ FetchRaises(c)
    \/ Tick

\* Runs that follow one another, with a data source that may fail
SpecCacheFail == InitCache /\ [][NextCacheFail]_vars

\* C23: when the fetch of a cache fill raises, the exception reaches the
\* caller of the getter after that one fetch, nothing is stored for the key,
\* and the next lookup fetches again.
C23_FailedFillStoresNothing ==
    \A l \in 1..Len(lookups) :
        Raised(lookups[l]) =>
            /\ lookups[l].fetched = 1
            /\ (l = Len(lookups) /\ NoLookupRunning) => CacheKey \notin DOMAIN cache
            /\ l < Len(lookups) => lookups[l + 1].fetched = 1

\* The step of the failing fetch leaves cache and expiry as they are.
C23_CacheUnchanged ==
    [][\A c \in Callers :
          (callers[c].at = "fetch" /\ callers'[c].at = "idle") =>
              /\ cache' = cache
              /\ cache_expiry' = cache_expiry
              /\ Len(fetch_log') = Len(fetch_log) + 1
              /\ Raised(lookups'[Len(lookups')])]_vars

\* A lookup ended with the exception and the lookup after it fetched and
\* stored the data.
C23_Witness ==
    \E l \in 1..(Len(lookups) - 1) :
        /\ Raised(lookups[l])
        /\ ~Raised(lookups[l + 1])
        /\ lookups[l + 1].fetched = 1
        /\ CacheKey \in DOMAIN cache

(***************************************************************************)
(* The two Belgacom comparisons side by side                               *)
(***************************************************************************)
\* Two A-number rows of the list share one (origin, reference_destinations)
\* pair.
SharedANumberPair(anumber_pricing) ==
    \E a \in 1..Len(anumber_pricing) : \E b \in 1..Len(anumber_pricing) :
        /\ a < b
        /\ anumber_pricing[a].origin = anumber_pricing[b].origin
        /\ anumber_pricing[a].reference_destinations
                = anumber_pricing[b].reference_destinations

\* A row of the price list has country_area '88237'.
Has88237(price_list) ==
    \E k \in 1..Len(price_list) : price_list[k].country_area = Code88237

C24_SameOutputOtherwise ==
    (/\ fn \in {"belgacom", "belgacom_strategy"}
     /\ Compared
     /\ ~Has88237(inp.price_list)
     /\ ~SharedANumberPair(inp.second))
        => CompareData("belgacom", inp) = CompareData("belgacom_strategy", inp)

\* The strategy leaves out the fallback record of a row with country_area
\* '88237', which the service writes.
C24_Differ88237 ==
    /\ fn = "belgacom_strategy"
    /\ Compared
    /\ Has88237(inp.price_list)
    /\ Len(csv_data) < Len(CompareData("belgacom", inp))

\* With a shared pair the service takes the last row of the pair and the
\* strategy the first.
C24_DifferSharedPair ==
    /\ fn = "belgacom_strategy"
    /\ Compared
    /\ ~Has88237(inp.price_list)
    /\ SharedANumberPair(inp.second)
    /\ csv_data # CompareData("belgacom", inp)
    /\ Len(csv_data) = Len(CompareData("belgacom", inp))

(***************************************************************************)
(* Orange France Win and Orange France Platinum side by side               *)
(***************************************************************************)
\* The master rows with the vendor name of Orange France Win replaced by the
\* name of Orange France Platinum; nothing else differs.
WinMasterAsPlatinum(obr_master_data) ==
    [k \in 1..Len(obr_master_data) |->
        IF Upper(obr_master_data[k].vendor) = OrangeFranceWinUpper
        THEN [obr_master_data[k] EXCEPT !.vendor = OrangeFrancePlatinumUpper]
        ELSE obr_master_data[k]]

\* C25: given the same price list, the same origin mapping and master rows
\* that differ only in the vendor name each function filters on,
\* _compare_orange_france_win_data and _compare_orange_france_platinum_data
\* return the same list.
C25_WinSameAsPlatinum ==
    (fn = "orange_france_win" /\ Compared)
        => CompareOrangeFranceWinData(inp.price_list, inp.second, inp.master)
             = CompareOrangeFrancePlatinumData(inp.price_list, inp.second,
                                               WinMasterAsPlatinum(inp.master))

\* The two differ already when no master row is of the vendor: the final
\* pass of Platinum writes the highest rate of a code, that of Win the rate
\* of the first row that names it.
C25_DifferWithoutMaster ==
    /\ fn = "orange_france_win"
    /\ Compared
    /\ MasterOf(inp.master, OrangeFranceWinUpper) = <<>>
    /\ csv_data # CompareOrangeFrancePlatinumData(inp.price_list, inp.second,
                                                  WinMasterAsPlatinum(inp.master))

\* With master rows of the vendor the routed passes differ as well: the
\* lists have different lengths.
C25_DifferInLength ==
    /\ fn = "orange_france_win"
    /\ Compared
    /\ Len(csv_data) # Len(CompareOrangeFrancePlatinumData(inp.price_list, inp.second,
                                                           WinMasterAsPlatinum(inp.master)))

(***************************************************************************)
(* Sunrise: the rate of a routed record                                    *)
(***************************************************************************)
SunriseVodafonePrices ==
    { SunrisePrice(Spain, SetES, ZoneEU, <<"3","4">>, 5, Date1),
      SunrisePrice(Spain, SetES, ZoneEU, <<"3","4">>, 8, Date2),
      SunrisePrice(Spain, SetES, ZoneEU, <<"3","4",";","3","5">>, 5, Date1),
      SunrisePrice(Spain, OriginSetNL, ZoneEU, <<"3","6">>, 5, Date1),
      SunrisePrice(Spain, OriginSetNL, ZoneEU, <<"3","6">>, 9, Date2) }

SunriseVodafoneOrigins ==
    { SunriseOriginRow(SetES, ZoneEU, <<"1">>),
      SunriseOriginRow(OriginSetNL, ZoneEU, <<"1">>) }

SunriseVodafoneMasters ==
    { Master(SunriseUpper, <<"1">>, <<"3","4">>, Spain, <<"V","o","d","a","f","o","n","e">>, ZoneEU),
      Master(SunriseUpper, <<"1">>, <<"3","4">>, Spain, <<"V","O","D","A","F","O","N","E">>, ZoneEU),
      Master(SunriseUpper, <<"1">>, <<"3","4">>, Spain, RouteR1, ZoneEU) }

SunriseVodafoneInputs ==
    [price_list : Lists(SunriseVodafonePrices, MaxPrice),
     second : Lists(SunriseVodafoneOrigins, MaxSecond),
     third : {<<>>},
     master : MasterLists(SunriseVodafoneMasters, MaxMaster)]

InitVodafone ==
    /\ fn = "sunrise"
    /\ inp \in SunriseVodafoneInputs
    /\ csv_data = <<>>
    /\ written = <<>>
    /\ pc = "start"
    /\ CacheIdle
    /\ RunsIdle
    /\ StrategyIdle
    /\ CallIdle

SpecVodafone == InitVodafone /\ [][Next]_vars

\* The price rows of an origin row: price_list_index[(origin_set, origin_name)]
SunriseMatchingPrices(origin, price_list) ==
    SelectSeq(price_list, LAMBDA price :
        price.origin_set = origin.origin_set /\ price.origin = origin.origin_name)

\* The highest rate among the matched rows with the dial-codes field of the
\* row.
HighestSameDialCodes(origin, price_item, price_list) ==
    MaxRate(SelectSeq(SunriseMatchingPrices(origin, price_list), LAMBDA p :
                p.dial_codes = price_item.dial_codes))

\* The rate the rule gives a record written for price_item under an origin
\* row and a routing.
VodafoneRuleRate(routing, origin, price_item, price_list) ==
    LET matching_prices == SunriseMatchingPrices(origin, price_list)
        first_match == First(LAMBDA price : price.origin = origin.origin_name,
                             matching_prices)
    IN  IF Lower(routing) = Vodafone /\ origin.origin_set # OriginSetNL
        THEN HighestSameDialCodes(origin, price_item, price_list)
        ELSE IF first_match # <<>> THEN first_match[1].rate
        ELSE HighestSameDialCodes(origin, price_item, price_list)

\* The record is one the routed pass writes for some master row of the
\* vendor, origin row and price row, with the rate of the rule.
FollowsVodafoneRule(record, i) ==
    LET sunrise_master_data == MasterOf(i.master, SunriseUpper)
    IN  \E v \in 1..Len(sunrise_master_data) : \E o \in 1..Len(i.second) :
        \E k \in 1..Len(i.price_list) :
            LET vendor == sunrise_master_data[v]
                origin == i.second[o]
                price_item == i.price_list[k]
                codes == ParseAndSplitDialCodes(price_item.dial_codes)
            IN  /\ origin.dialed_digit = vendor.origin_code
                /\ price_item.origin_set = origin.origin_set
                /\ price_item.origin = origin.origin_name
                /\ \E c \in 1..Len(codes) : Strip(codes[c]) = record.country_code
                /\ record.destinations = price_item.destination
                /\ record.origin_name = vendor.routing
                /\ record.price_min
                       = VodafoneRuleRate(vendor.routing, origin, price_item, i.price_list)

\* C26: in the Sunrise comparison a record written under a master row with
\* routing 'vodafone' (in any case) and an origin set other than 'NL' has
\* the highest rate among the matched price rows with the same dial-codes
\* field; under any other master row it has the rate of the first match when
\* there is one, and the highest rate otherwise.
C26_VodafoneRate ==
    (fn = "sunrise" /\ Compared) =>
        \A n \in 1..Len(csv_data) :
            csv_data[n].origin_name # <<>> => FollowsVodafoneRule(csv_data[n], inp)

\* A vodafone master row and an origin set other than NL: a routed record has
\* rate 8 although the first match has rate 5.
C26_Witness ==
    /\ fn = "sunrise"
    /\ Compared
    /\ C26_VodafoneRate
    /\ Len(inp.master) = 1
    /\ Lower(inp.master[1].routing) = Vodafone
    /\ Len(inp.second) = 1
    /\ inp.second[1].origin_set = SetES
    /\ Len(inp.price_list) = 2
    /\ inp.price_list[1].rate = 5
    /\ \E n \in 1..Len(csv_data) :
           csv_data[n].origin_name # <<>> /\ csv_data[n].price_min = 8

\* A vodafone master row and origin set NL: the rate of the first match, 5,
\* although a later row of the same dial codes has rate 9.
C26_WitnessNL ==
    /\ fn = "sunrise"
    /\ Compared
    /\ Len(inp.master) = 1
    /\ Lower(inp.master[1].routing) = Vodafone
    /\ Len(inp.second) = 1
    /\ inp.second[1].origin_set = OriginSetNL
    /\ Len(inp.price_list) = 2
    /\ inp.price_list[1].rate = 5
    /\ inp.price_list[2].rate = 9
    /\ \E n \in 1..Len(csv_data) :
           csv_data[n].origin_name # <<>> /\ csv_data[n].price_min = 5

\* Another routing: the rate of the first match.
C26_WitnessOther ==
    /\ fn = "sunrise"
    /\ Compared
    /\ Len(inp.master) = 1
    /\ inp.master[1].routing = RouteR1
    /\ Len(inp.second) = 1
    /\ inp.second[1].origin_set = SetES
    /\ Len(inp.price_list) = 2
    /\ inp.price_list[1].rate = 5
    /\ inp.price_list[2].rate = 8
    /\ \E n \in 1..Len(csv_data) :
           csv_data[n].origin_name # <<>> /\ csv_data[n].price_min = 5

(***************************************************************************)
(* The temporary input file of a finished run                              *)
(***************************************************************************)
\* The process method of run r has returned and the file it saved is still
\* in temp_dir.
LeftBehind(r) ==
    /\ runs[r].at = "done"
    /\ runs[r].file_path # <<>>
    /\ runs[r].file_path \in DOMAIN temp_dir
    /\ temp_dir[runs[r].file_path].by = r

\* C27: after a processing run has finished - by success, by the
\* data-incomplete failure, or by an exception raised at a step after the
\* file was saved - the temporary input file the run saved has been deleted,
\* for every vendor's processing method.
C27_TempFileDeleted == \A r \in Runs : ~LeftBehind(r)

\* process_belgacom_file deletes the file in its finally clause on each of
\* its paths.
C27_BelgacomDeletes ==
    \A r \in Runs : runs[r].vendor = "Belgacom Platinum" => ~LeftBehind(r)

\* process_oteglobe_file deletes the file when it has sent the success email.
C27_OteglobeDeletesOnSuccess ==
    \A r \in Runs :
        (/\ runs[r].vendor = "Oteglobe"
         /\ \E k \in 1..Len(runs[r].notes) : runs[r].notes[k].type = "success")
            => ~LeftBehind(r)

\* An Oteglobe run ended with the error email and its file is still there.
C27_OteglobeLeftBehind ==
    \E r \in Runs :
        /\ LeftBehind(r)
        /\ runs[r].vendor = "Oteglobe"
        /\ Len(runs[r].notes) = 1
        /\ runs[r].notes[1].type = "error"

(***************************************************************************)
(* Sunrise: the size of the output                                         *)
(***************************************************************************)
\* C28: the list the Sunrise comparison returns never has more records than
\* the price list; when the deduplicated union of routed and fallback records
\* exceeds it, the routed records are discarded and only the deduplicated
\* fallback records are returned.
C28_SunriseAtMostPriceList ==
    (fn = "sunrise" /\ Compared) =>
        /\ Len(csv_data) <= Len(inp.price_list)
        /\ SunriseExceeds =>
              /\ \A n \in 1..Len(csv_data) : csv_data[n].origin_name = <<>>
              /\ csv_data = SunriseDedup(SunriseFinalLoop(inp.price_list))

\* The union exceeded the price list, routed records were discarded and the
\* fallback records were returned.
C28_Witness ==
    /\ fn = "sunrise"
    /\ Compared
    /\ SunriseExceeds
    /\ Len(SunriseCombined(inp.price_list, inp.second, inp.master))
          > Len(SunriseFinalLoop(inp.price_list))
    /\ Len(inp.price_list) = MaxPrice
    /\ Len(csv_data) >= 1
    /\ \A n \in 1..Len(csv_data) : csv_data[n].origin_name = <<>>

\* The union did not exceed the price list and a routed record was returned.
C28_WitnessWithin ==
    /\ fn = "sunrise"
    /\ Compared
    /\ ~SunriseExceeds
    /\ Len(csv_data) = Len(inp.price_list)
    /\ \E n \in 1..Len(csv_data) : csv_data[n].origin_name # <<>>

(***************************************************************************)
(* Sunrise: MaxLine and the rows of the price list that are used           *)
(***************************************************************************)
MaxRowsRead == 6
MaxLineSpan == 8

\* The first data row of the sheet in the loop the limit comes from.
HeaderRows == 14

\* The price lists read_sunrise_price_list returns: rows 1..n of the sheet
RowsRead == { [k \in 1..n |-> k] : n \in 0..MaxRowsRead }

\* max_line: None (no value in the request and none in RatesFormatter) or an
\* integer
MaxLines == {<<>>} \cup { <<m>> : m \in (HeaderRows - MaxLineSpan)..(HeaderRows + MaxLineSpan) }

\* s[:k] of Python: a negative k counts from the end
SliceTo(s, k) ==
    IF k >= 0
    THEN SubSeq(s, 1, IF k < Len(s) THEN k ELSE Len(s))
    ELSE SubSeq(s, 1, IF Len(s) + k > 0 THEN Len(s) + k ELSE 0)

\* The price list process_sunrise_file goes on with.
TruncateToMaxLine(price_list, max_line) ==
    IF max_line # <<>>
    THEN LET expected_count == max_line[1] - HeaderRows
         IN  IF Len(price_list) > expected_count
             THEN SliceTo(price_list, expected_count)
             ELSE price_list
    ELSE price_list

InitMaxLine ==
    /\ EngineIdle
    /\ CacheIdle
    /\ RunsIdle
    /\ StrategyIdle
    /\ \E price_list \in RowsRead, max_line \in MaxLines :
          call = [name |-> "process_sunrise_file",
                  price_list |-> price_list,
                  max_line |-> max_line]
    /\ result = <<>>

\* Step 2 of process_sunrise_file, after the sheets are read
ApplyMaxLine ==
    /\ call # <<>>
    /\ call.name = "process_sunrise_file"
    /\ result = <<>>
    /\ result' = <<TruncateToMaxLine(call.price_list, call.max_line)>>
    /\ UNCHANGED call
    /\ UNCHANGED engineVars
    /\ UNCHANGED cacheVars
    /\ UNCHANGED runVars
    /\ UNCHANGED strategyVars

NextMaxLine == ApplyMaxLine

SpecMaxLine == InitMaxLine /\ [][NextMaxLine]_vars

MaxLineApplied ==
    /\ call # <<>>
    /\ call.name = "process_sunrise_file"
    /\ call.max_line # <<>>
    /\ result # <<>>

IsPrefixOf(s, t) == Len(s) <= Len(t) /\ s = SubSeq(t, 1, Len(s))

\* C29: with MaxLine m the price list used is the first m - 14 rows of the
\* rows read when more were read, and all rows otherwise; for every integer
\* m, also below 14, it is a prefix of the rows read with at most
\* max(0, m - 14) rows.
C29_PrefixOfAtMostMaxLineRows ==
    MaxLineApplied =>
        LET m == call.max_line[1]
            used == result[1]
        IN  /\ IsPrefixOf(used, call.price_list)
            /\ Len(used) <= IF m - HeaderRows > 0 THEN m - HeaderRows ELSE 0
            /\ Len(call.price_list) <= m - HeaderRows => used = call.price_list
            /\ (Len(call.price_list) > m - HeaderRows /\ m >= HeaderRows)
                  => Len(used) = m - HeaderRows

\* The same for the values of m from 14 on, where it holds.
C29_From14On ==
    (MaxLineApplied /\ call.max_line[1] >= HeaderRows) => C29_PrefixOfAtMostMaxLineRows

\* Without a value of MaxLine all rows are used.
C29_NoneKeepsAll ==
    (call # <<>> /\ call.name = "process_sunrise_file" /\ call.max_line = <<>>
        /\ result # <<>>) => result[1] = call.price_list

\* m below 14 and rows are used: the slice counted from the end.
C29_RowsUsedBelow14 ==
    /\ MaxLineApplied
    /\ call.max_line[1] < HeaderRows
    /\ Len(result[1]) > 0
    /\ Len(result[1]) = Len(call.price_list) + (call.max_line[1] - HeaderRows)

(***************************************************************************)
(* The comparison strategy of a registered vendor                          *)
(***************************************************************************)
\* COMPARISON_STRATEGIES: the registered names and the class of each
COMPARISON_STRATEGIES ==
    [strategy_name \in {"belgacom", "orange_france", "ibasis", "hgc", "oteglobe",
                        "deutsche", "arelion", "orange_telecom", "apelby", "phonetic",
                        "qxtel"} |->
        CASE strategy_name = "belgacom" -> "BelgacomComparisonStrategy"
          [] strategy_name \in {"orange_france", "ibasis", "hgc"} ->
                "TwoSheetGenericComparisonStrategy"
          [] strategy_name \in {"oteglobe", "deutsche", "orange_telecom", "qxtel"} ->
                "OteglobeComparisonStrategy"
          [] strategy_name = "arelion" -> "ArelionComparisonStrategy"
          [] strategy_name \in {"apelby", "phonetic"} -> "ApelbyComparisonStrategy"]

\* get_comparison_strategy(strategy_name): the strategy, or ValueError
GetComparisonStrategy(strategy_name) ==
    IF strategy_name \in DOMAIN COMPARISON_STRATEGIES
    THEN [strategy |-> COMPARISON_STRATEGIES[strategy_name]]
    ELSE [raised |-> "ValueError"]

\* get_vendor_by_key(vendor_key)
GetVendorByKey(vendor_key) ==
    SelectSeq(VENDOR_REGISTRY, LAMBDA config : config.key = vendor_key)

RegistryKeys == { VENDOR_REGISTRY[k].key : k \in 1..Len(VENDOR_REGISTRY) }

\* The vendor configuration a processor is built with: looked up by key or
\* by the name of a request.
ProcessorConfig(c) ==
    IF c.by = "key" THEN GetVendorByKey(c.arg) ELSE FindVendorByName(c.arg)

InitStrategyLookup ==
    /\ EngineIdle
    /\ CacheIdle
    /\ RunsIdle
    /\ StrategyIdle
    /\ \/ \E vendor_key \in RegistryKeys :
            call = [name |-> "_compare_data", by |-> "key", arg |-> vendor_key]
       \/ \E vendor_name \in VendorNames :
            call = [name |-> "_compare_data", by |-> "name", arg |-> vendor_name]
    /\ result = <<>>

\* _compare_data of a processor of a registered vendor, up to the call of the
\* strategy: strategy_name from the vendor configuration, then
\* get_comparison_strategy(strategy_name)
CompareDataStrategy ==
    /\ call # <<>>
    /\ call.name = "_compare_data"
    /\ result = <<>>
    /\ ProcessorConfig(call) # <<>>
    /\ result' = <<GetComparisonStrategy(ProcessorConfig(call)[1].comparison_strategy)>>
    /\ UNCHANGED call
    /\ UNCHANGED engineVars
    /\ UNCHANGED cacheVars
    /\ UNCHANGED runVars
    /\ UNCHANGED strategyVars

NextStrategyLookup == CompareDataStrategy

SpecStrategyLookup == InitStrategyLookup /\ [][NextStrategyLookup]_vars

StrategyLookedUp ==
    /\ call # <<>>
    /\ call.name = "_compare_data"
    /\ result # <<>>

\* The vendors whose comparison runs in a method of OBRService of its own.
SunriseStrategyKeys ==
    {"sunrise", "orange_france_platinum", "orange_france_win", "ibasis", "hgc"}

\* C30: the comparison_strategy of every vendor of VENDOR_REGISTRY is a key
\* of COMPARISON_STRATEGIES, so that get_comparison_strategy raises no
\* ValueError for a registered vendor.
C30_RegisteredStrategyFound ==
    StrategyLookedUp =>
        /\ ProcessorConfig(call)[1].comparison_strategy \in DOMAIN COMPARISON_STRATEGIES
        /\ "raised" \notin DOMAIN result[1]

\* The vendors whose comparison_strategy is not 'sunrise' get a strategy.
C30_OthersFound ==
    (StrategyLookedUp /\ ProcessorConfig(call)[1].key \notin SunriseStrategyKeys)
        => "strategy" \in DOMAIN result[1]

\* The lookup raised for a vendor found by key.
C30_RaisedForRegistered ==
    /\ StrategyLookedUp
    /\ call.by = "key"
    /\ call.arg \in SunriseStrategyKeys
    /\ "raised" \in DOMAIN result[1]
====
